---- MODULE Spec2Model ----
(***************************************************************************)
(* Model of the bug tracker (scripts/bug-tracker.js, class BugTracker) and *)
(* of the operations of the bug analyzer (scripts/bug-analyzer.js) that    *)
(* drive it.  A tracker instance holds the bug list, the history log and   *)
(* the metrics in memory; three files hold their persisted copies.         *)
(***************************************************************************)
EXTENDS Integers, Sequences, FiniteSets, TLC

(* ------------------------------ bounds --------------------------------- *)
\* Number of operations applied in one behaviour.
MaxOps == 2
\* Last value of the clock (one unit is one day).
MaxTime == 1

(* --------------------------- program constants ------------------------- *)
SEVERITY_LEVELS == {"critical", "high", "medium", "low"}
BUG_CATEGORIES ==
    {"functional", "security", "performance", "accessibility", "integration", "data"}
BUG_STATES ==
    {"detected", "analyzing", "fixing", "testing", "deploying", "resolved", "closed"}
\* bugTrend keeps the last 30 entries.
TrendLimit == 30

\* A missing value (JS undefined / null) is the empty tuple, a present value v
\* is <<v>>.
Null == << >>
Some(v) == <<v>>

Trackers == {1, 2}

(* ------------------------------ inputs --------------------------------- *)
SeverityInputs == {"critical", "low"}
CategoryInputs == {"security", "accessibility"}
\* The record handed to createBug: the CLI passes service, severity and
\* category; importBugs passes a whole exported bug, whose state, priority
\* and resolvedAt fields createBug does not read.
BugDataInputs ==
    {[service |-> "auth_service", severity |-> "critical", category |-> "security"],
     [service |-> "payment_service", severity |-> "low", category |-> "accessibility"],
     [service |-> "auth_service", severity |-> "low", category |-> "security",
      state |-> "resolved", priority |-> 16, resolvedAt |-> Some(0)]}
\* The random part of a generated id (Math.random() * 1000, floored), cut to
\* two values: two ids made at the same time may or may not collide.
RandInputs == {0, 1}
\* An id no bug of the store carries.
UnknownId == <<99, 0>>
\* The states, the field updates and the cutoffs callers pass.
StateInputs == {"resolved", "closed"}
UpdateInputs ==
    {[severity |-> v] : v \in SeverityInputs}
    \cup {[category |-> c] : c \in CategoryInputs}
    \cup {[state |-> s] : s \in StateInputs}
    \cup {[priority |-> 5], [resolvedAt |-> Some(0)]}
DaysOldInputs == {0, 1}
\* An exported bug list handed to importBugs.
ImportedBug(n, st) ==
    [id |-> <<50, n>>, title |-> Null, service |-> "auth_service",
     severity |-> "low",
     category |-> "security", state |-> st, detectedAt |-> 0,
     resolvedAt |-> IF st = "resolved" THEN Some(0) ELSE Null, priority |-> 16,
     errorMessage |-> Null, tags |-> << >>,
     comments |-> << >>, history |-> << >>, rootCauseAnalysis |-> Null,
     fix |-> Null, validation |-> Null, deployment |-> Null, resolution |-> Null]
ImportInputs == {<<ImportedBug(0, "detected"), ImportedBug(1, "resolved")>>}

VARIABLES bugs, history, metrics, up, bugDatabase, bugHistory, metricsFile,
          now, nops, last,
          config, fixTemplates, backupDir, workTree, ret, events
\* The state of the analyzer and of the directories it works on: its
\* configuration, the fix templates it loaded, the backup directory of the
\* last createBackup, the service files overwritten by code changes, the
\* value the last analyzer operation returned and the effects it had, in
\* order.
avars == <<config, fixTemplates, backupDir, workTree, ret, events>>
vars == <<bugs, history, metrics, up, bugDatabase, bugHistory, metricsFile,
          now, nops, last, config, fixTemplates, backupDir, workTree, ret, events>>

(* ------------------------------ files ---------------------------------- *)
\* A file is absent, holds a complete JSON document, or holds a torn one (a
\* write cut short).
Absent == [st |-> "absent", data |-> << >>]
Torn == [st |-> "torn", data |-> << >>]
Doc(v) == [st |-> "ok", data |-> <<v>>]

initializeMetrics ==
    [totalBugs |-> 0, criticalBugs |-> 0, highPriorityBugs |-> 0,
     mediumPriorityBugs |-> 0, lowPriorityBugs |-> 0, resolvedBugs |-> 0,
     averageResolutionTime |-> <<0, 1>>, bugTrend |-> << >>,
     serviceBreakdown |-> [k \in {} |-> 0], categoryBreakdown |-> [k \in {} |-> 0]]

\* existsSync false, or JSON.parse throwing (caught), gives the default.
loadBugs(f) == IF f.st = "ok" THEN f.data[1] ELSE << >>
loadHistory(f) == IF f.st = "ok" THEN f.data[1] ELSE << >>
loadMetrics(f) == IF f.st = "ok" THEN f.data[1] ELSE initializeMetrics

(* --------------------------- pure helpers ------------------------------ *)
severityWeight == [critical |-> 4, high |-> 3, medium |-> 2, low |-> 1]
categoryWeight ==
    [security |-> 4, functional |-> 3, performance |-> 2, accessibility |-> 1,
     integration |-> 2, data |-> 3]
\* A product with an undefined factor is NaN.
NaN == 0 - 1
\* JSON.stringify writes a NaN as null, which JSON.parse reads back as null.
JsonNull == 0 - 2
jsonBugs(bs) ==
    [i \in 1..Len(bs) |->
        IF bs[i].priority = NaN THEN [bs[i] EXCEPT !.priority = JsonNull] ELSE bs[i]]
calculatePriority(severity, category) ==
    IF severity \in DOMAIN severityWeight /\ category \in DOMAIN categoryWeight
    THEN severityWeight[severity] * categoryWeight[category]
    ELSE NaN

\* A lookup that falls back to the first bug when no id matches.
find_orFirst(bs, bugId) ==
    IF \E i \in 1..Len(bs) : bs[i].id = bugId
    THEN CHOOSE i \in 1..Len(bs) :
            bs[i].id = bugId /\ \A j \in 1..(i - 1) : bs[j].id # bugId
    ELSE IF bs = << >> THEN 0 ELSE 1

\* this.bugs.find(b => b.id === bugId): index of the first match, 0 if none.
find(bs, bugId) ==
    IF \E i \in 1..Len(bs) : bs[i].id = bugId
    THEN CHOOSE i \in 1..Len(bs) :
            bs[i].id = bugId /\ \A j \in 1..(i - 1) : bs[j].id # bugId
    ELSE 0

\* Object.assign(bug, updates) on the fields a bug record has.  Of a bug the
\* model keeps the fields the operations read or the lifecycle writes; the
\* texts (title, description, ...) and lastUpdated are left out.
assign(bug, updates) ==
    [f \in DOMAIN bug |-> IF f \in DOMAIN updates THEN updates[f] ELSE bug[f]]

\* this.bugs.filter(b => b[field] === v).length
countWhere(bs, field, v) == Cardinality({i \in 1..Len(bs) : bs[i][field] = v})

RECURSIVE SumResolution(_, _)
SumResolution(bs, i) ==
    IF i = 0 THEN 0
    ELSE SumResolution(bs, i - 1)
         + (IF bs[i].resolvedAt # Null
            THEN bs[i].resolvedAt[1] - bs[i].detectedAt ELSE 0)

\* The breakdown objects: one key per value present, with its count.
breakdown(bs, field) ==
    [k \in {bs[i][field] : i \in 1..Len(bs)} |->
        Cardinality({i \in 1..Len(bs) : bs[i][field] = k})]

lastN(s, n) == IF Len(s) <= n THEN s ELSE SubSeq(s, Len(s) - n + 1, Len(s))

bumpTrend(trend, today) ==
    IF \E i \in 1..Len(trend) : trend[i].date = today
    THEN LET i == CHOOSE k \in 1..Len(trend) :
                    trend[k].date = today
                    /\ \A j \in 1..(k - 1) : trend[j].date # today
         IN [trend EXCEPT ![i].count = @ + 1]
    ELSE Append(trend, [date |-> today, count |-> 1])

\* updateMetrics recomputes the counts from the whole bug list; the mean
\* resolution time (kept as <<total, count>>) is touched only when some bug
\* has a resolvedAt, and the trend entry of the day is incremented.
updateMetrics(m, bs, today) ==
    LET nres == Len(bs) - countWhere(bs, "resolvedAt", Null) IN
    [totalBugs |-> Len(bs),
     criticalBugs |-> countWhere(bs, "severity", "critical"),
     highPriorityBugs |-> countWhere(bs, "severity", "high"),
     mediumPriorityBugs |-> countWhere(bs, "severity", "medium"),
     lowPriorityBugs |-> countWhere(bs, "severity", "low"),
     resolvedBugs |-> countWhere(bs, "state", "resolved"),
     serviceBreakdown |-> breakdown(bs, "service"),
     categoryBreakdown |-> breakdown(bs, "category"),
     averageResolutionTime |->
        IF nres > 0 THEN <<SumResolution(bs, Len(bs)), nres>>
        ELSE m.averageResolutionTime,
     bugTrend |-> lastN(bumpTrend(m.bugTrend, today), TrendLimit)]

\* addToHistory builds one entry; it is pushed on the global log and on the
\* bug's own history.  The entry's generated id, details and timestamp are
\* left out.
historyEntry(bugId, action) == [bugId |-> bugId, action |-> action]

(* ------------------------ persistence and crashes ---------------------- *)
\* The files each operation writes, in the order of its save calls.
savesOf ==
    [createBug |-> <<"bugs", "history", "metrics">>,
     updateBug |-> <<"bugs", "history", "metrics">>,
     addComment |-> <<"bugs", "history">>,
     analyzeRootCause |-> <<"bugs">>,
     implementFix |-> <<"bugs", "history">>,
     validateFix |-> <<"bugs", "history">>,
     deployFix |-> <<"bugs", "history">>,
     resolveBug |-> <<"bugs", "history", "metrics">>,
     cleanupOldBugs |-> <<"bugs", "history">>]

\* How far the saves of an operation got: `done` files written whole, and
\* the next one torn or untouched.  writeFileSync replaces the file in place.
\* `failed` are the files whose writeFileSync threw: the save method catches
\* the error and logs it, and the file stays as it was.
Complete(saves) == [done |-> Len(saves), torn |-> FALSE, failed |-> {}]
CrashPoints(saves) ==
    {[done |-> k, torn |-> b, failed |-> {}] :
        k \in 0..(Len(saves) - 1), b \in BOOLEAN}
FailPoints(saves) ==
    {[done |-> Len(saves), torn |-> FALSE, failed |-> S] :
        S \in (SUBSET {saves[k] : k \in 1..Len(saves)}) \ {{}}}
NoCrash(op) == {Complete(savesOf[op])}
AnyCrash(op) == {Complete(savesOf[op])} \cup CrashPoints(savesOf[op])

writeFile(old, name, doc, saves, c) ==
    IF name \in c.failed THEN old
    ELSE IF \E i \in 1..c.done : saves[i] = name THEN doc
    ELSE IF c.torn /\ saves[c.done + 1] = name THEN Torn
    ELSE old

\* The end of a handler that found its bug (or needs none): the new
\* in-memory state of tracker t and its saves.  A tracker whose process died
\* during the saves is down until it is constructed again.
Finish(t, op, bugId, pre, b, h, m, c) ==
    LET saves == savesOf[op] IN
    /\ bugs' = [bugs EXCEPT ![t] = b]
    /\ history' = [history EXCEPT ![t] = h]
    /\ metrics' = [metrics EXCEPT ![t] = m]
    /\ bugDatabase' = writeFile(bugDatabase, "bugs", Doc(jsonBugs(b)), saves, c)
    /\ bugHistory' = writeFile(bugHistory, "history", Doc(h), saves, c)
    /\ metricsFile' = writeFile(metricsFile, "metrics", Doc(m), saves, c)
    /\ up' = [up EXCEPT ![t] = (c.done = Len(saves))]
    /\ last' = [t |-> t, op |-> op, id |-> bugId, pre |-> pre,
                result |-> IF c.done = Len(saves) THEN "ok" ELSE "crashed"]
    /\ nops' = nops + 1
    /\ UNCHANGED <<now, avars>>

\* throw new Error(`Bug ${bugId} not found`): nothing is changed or saved.
NotFound(t, op, bugId) ==
    /\ find(bugs[t], bugId) = 0
    /\ last' = [t |-> t, op |-> op, id |-> bugId, pre |-> Null,
                result |-> "NotFound"]
    /\ nops' = nops + 1
    /\ UNCHANGED <<bugs, history, metrics, up, bugDatabase, bugHistory,
                   metricsFile, now, avars>>

\* The ids a caller may pass: those of the store and one that is unknown.
IdInputs(t) == {bugs[t][i].id : i \in 1..Len(bugs[t])} \cup {UnknownId}
Ready(t) == up[t] /\ nops < MaxOps

(* ------------------------------ operations ----------------------------- *)
\* createBug copying the caller's state and priority when the record has them.
createBug_trustsCaller(st, bugData, id, today) ==
    LET entry == historyEntry(id, "created")
        bug == [id |-> id,
                title |-> IF "title" \in DOMAIN bugData THEN bugData.title ELSE Null,
                service |-> bugData.service,
                severity |-> bugData.severity, category |-> bugData.category,
                state |-> IF "state" \in DOMAIN bugData THEN bugData.state
                          ELSE "detected",
                detectedAt |-> today, resolvedAt |-> Null,
                priority |-> IF "priority" \in DOMAIN bugData THEN bugData.priority
                             ELSE calculatePriority(bugData.severity, bugData.category),
                errorMessage |-> IF "errorMessage" \in DOMAIN bugData
                                 THEN bugData.errorMessage ELSE Null,
                tags |-> IF "tags" \in DOMAIN bugData THEN bugData.tags ELSE << >>,
                comments |-> << >>, history |-> <<entry>>,
                rootCauseAnalysis |-> Null, fix |-> Null, validation |-> Null,
                deployment |-> Null, resolution |-> Null]
        b == Append(st.b, bug)
    IN [b |-> b, h |-> Append(st.h, entry), m |-> updateMetrics(st.m, b, today)]

\* createBug on the in-memory state st = [b, h, m]; of the fields of bugData
\* the model keeps service, severity, category and errorMessage (undefined
\* when the caller gives none); state, priority and resolvedAt are not read.
createBug(st, bugData, id, today) ==
    LET entry == historyEntry(id, "created")
        bug == [id |-> id,
                title |-> IF "title" \in DOMAIN bugData THEN bugData.title ELSE Null,
                service |-> bugData.service,
                severity |-> bugData.severity, category |-> bugData.category,
                state |-> "detected", detectedAt |-> today, resolvedAt |-> Null,
                priority |-> calculatePriority(bugData.severity, bugData.category),
                errorMessage |-> IF "errorMessage" \in DOMAIN bugData
                                 THEN bugData.errorMessage ELSE Null,
                tags |-> IF "tags" \in DOMAIN bugData THEN bugData.tags ELSE << >>,
                comments |-> << >>, history |-> <<entry>>,
                rootCauseAnalysis |-> Null, fix |-> Null, validation |-> Null,
                deployment |-> Null, resolution |-> Null]
        b == Append(st.b, bug)
    IN [b |-> b, h |-> Append(st.h, entry), m |-> updateMetrics(st.m, b, today)]

\* generateBugId: BUG-<Date.now()>-<random>.
generateBugId(r) == <<now, r>>

CreateBug(t, bugData, r, c) ==
    /\ Ready(t)
    /\ LET st == createBug([b |-> bugs[t], h |-> history[t], m |-> metrics[t]],
                           bugData, generateBugId(r), now)
       IN Finish(t, "createBug", generateBugId(r), Null, st.b, st.h, st.m, c)

\* The bug list with the bug at index i replaced, and one entry pushed on the
\* bug's own history (addToHistory).
withEntry(bug, action) ==
    [bug EXCEPT !.history = Append(@, historyEntry(bug.id, action))]

updateBug(bug, updates) == assign(bug, updates)

UpdateBug(t, bugId, updates, c) ==
    /\ Ready(t)
    /\ \/ NotFound(t, "updateBug", bugId)
       \/ /\ find(bugs[t], bugId) # 0
          /\ LET i == find(bugs[t], bugId)
                 old == bugs[t][i]
                 bug == withEntry(updateBug(old, updates), "updated")
                 b == [bugs[t] EXCEPT ![i] = bug]
                 h == Append(history[t], historyEntry(bug.id, "updated"))
                 m1 == IF old.severity # bug.severity
                       THEN updateMetrics(metrics[t], b, now) ELSE metrics[t]
                 m2 == IF old.state # bug.state /\ bug.state = "resolved"
                       THEN updateMetrics(m1, b, now) ELSE m1
             IN Finish(t, "updateBug", bugId, Some(old.state), b, h, m2, c)

\* The comment pushed by addComment.
newComment(author) == [author |-> author, type |-> "general"]

AddComment(t, bugId, c) ==
    /\ Ready(t)
    /\ \/ NotFound(t, "addComment", bugId)
       \/ /\ find(bugs[t], bugId) # 0
          /\ LET i == find(bugs[t], bugId)
                 old == bugs[t][i]
                 bug == withEntry([old EXCEPT !.comments = Append(@, newComment("dev"))],
                                  "comment_added")
                 b == [bugs[t] EXCEPT ![i] = bug]
                 h == Append(history[t], historyEntry(bug.id, "comment_added"))
             IN Finish(t, "addComment", bugId, Some(old.state), b, h, metrics[t], c)

\* The chain the 5-Whys switch falls back to (its default branch).
defaultChain ==
    [why1 |-> "Bug detected in system",
     why2 |-> "Error in code implementation",
     why3 |-> "Testing did not catch the issue",
     why4 |-> "Development process has gaps",
     why5 |-> "Quality assurance process needs improvement",
     rootCause |-> "Insufficient quality assurance processes"]

\* The switch with its default branch only.
whyChain_defaultOnly(category) == defaultChain

\* The chain the 5-Whys switch selects for a category.
whyChain(category) ==
    CASE category = "security" ->
            [why1 |-> "Security vulnerability detected",
             why2 |-> "Input validation failed",
             why3 |-> "Sanitization not implemented",
             why4 |-> "Security best practices not followed",
             why5 |-> "Lack of security training or code review",
             rootCause |-> "Insufficient security practices in development"]
      [] category = "performance" ->
            [why1 |-> "Performance degradation detected",
             why2 |-> "Inefficient algorithm or query",
             why3 |-> "No performance testing conducted",
             why4 |-> "Performance requirements not defined",
             why5 |-> "Performance not considered in design",
             rootCause |->
                "Performance considerations not integrated into development process"]
      [] category = "functional" ->
            [why1 |-> "Functionality not working as expected",
             why2 |-> "Logic error in implementation",
             why3 |-> "Requirements not properly understood",
             why4 |-> "Testing did not cover this scenario",
             why5 |-> "Insufficient requirements analysis",
             rootCause |-> "Gap between requirements and implementation"]
      [] OTHER -> defaultChain
rootCauseOf(category) == whyChain(category).rootCause

\* severityMultiplier in tenths; a severity outside the table has none.
severityMultiplier(severity) ==
    CASE severity = "critical" -> 10
      [] severity = "high" -> 7
      [] severity = "medium" -> 4
      [] severity = "low" -> 1
      [] OTHER -> NaN
\* String(n) of a natural number.
Digits == "0123456789"
RECURSIVE String(_)
String(n) ==
    IF n < 10 THEN SubSeq(Digits, n + 1, n + 1)
    ELSE String(n \div 10) \o SubSeq(Digits, (n % 10) + 1, (n % 10) + 1)
\* `~${Math.round(1000 * severityMultiplier[bug.severity])} users`
estimateAffectedUsers(bug) ==
    LET m == severityMultiplier(bug.severity)
    IN "~" \o (IF m = NaN THEN "NaN" ELSE String((1000 * m + 5) \div 10)) \o " users"

\* analyzeRootCause attaches the analysis and sets the state; it pushes no
\* history entry and saves the bug file only.
analyzeRootCause(bug, today) ==
    LET chain == whyChain(bug.category)
        analysis == [bugId |-> bug.id, timestamp |-> today,
                     why1 |-> chain.why1, why2 |-> chain.why2, why3 |-> chain.why3,
                     why4 |-> chain.why4, why5 |-> chain.why5,
                     rootCause |-> chain.rootCause,
                     impact |-> [userImpact |->
                                    [severity |-> bug.severity,
                                     affectedUsers |-> estimateAffectedUsers(bug)]]]
    IN [bug EXCEPT !.rootCauseAnalysis = Some(analysis), !.state = "analyzing"]

AnalyzeRootCause(t, bugId, c) ==
    /\ Ready(t)
    /\ \/ NotFound(t, "analyzeRootCause", bugId)
       \/ /\ find(bugs[t], bugId) # 0
          /\ LET i == find(bugs[t], bugId)
                 old == bugs[t][i]
                 b == [bugs[t] EXCEPT ![i] = analyzeRootCause(old, now)]
             IN Finish(t, "analyzeRootCause", bugId, Some(old.state), b,
                       history[t], metrics[t], c)

implementFix(bug) ==
    [bug EXCEPT !.fix = Some([status |-> "implemented"]), !.state = "fixing"]

ImplementFix(t, bugId, c) ==
    /\ Ready(t)
    /\ \/ NotFound(t, "implementFix", bugId)
       \/ /\ find(bugs[t], bugId) # 0
          /\ LET i == find(bugs[t], bugId)
                 old == bugs[t][i]
                 bug == withEntry(implementFix(old), "fix_implemented")
                 b == [bugs[t] EXCEPT ![i] = bug]
                 h == Append(history[t], historyEntry(bug.id, "fix_implemented"))
             IN Finish(t, "implementFix", bugId, Some(old.state), b, h, metrics[t], c)

validateFix(bug, passed) ==
    [bug EXCEPT !.validation = Some([status |-> IF passed THEN "passed" ELSE "failed"]),
                !.state = IF passed THEN "testing" ELSE "fixing"]

ValidateFix(t, bugId, passed, c) ==
    /\ Ready(t)
    /\ \/ NotFound(t, "validateFix", bugId)
       \/ /\ find(bugs[t], bugId) # 0
          /\ LET i == find(bugs[t], bugId)
                 old == bugs[t][i]
                 bug == withEntry(validateFix(old, passed), "fix_validated")
                 b == [bugs[t] EXCEPT ![i] = bug]
                 h == Append(history[t], historyEntry(bug.id, "fix_validated"))
             IN Finish(t, "validateFix", bugId, Some(old.state), b, h, metrics[t], c)

deployFix(bug) ==
    [bug EXCEPT !.deployment = Some([status |-> "deployed"]), !.state = "deploying"]

DeployFix(t, bugId, c) ==
    /\ Ready(t)
    /\ \/ NotFound(t, "deployFix", bugId)
       \/ /\ find(bugs[t], bugId) # 0
          /\ LET i == find(bugs[t], bugId)
                 old == bugs[t][i]
                 bug == withEntry(deployFix(old), "fix_deployed")
                 b == [bugs[t] EXCEPT ![i] = bug]
                 h == Append(history[t], historyEntry(bug.id, "fix_deployed"))
             IN Finish(t, "deployFix", bugId, Some(old.state), b, h, metrics[t], c)

resolveBug(bug, today) ==
    [bug EXCEPT !.resolution = Some([resolutionType |-> "fixed", resolvedAt |-> today]),
                !.state = "resolved",
                !.resolvedAt = Some(today)]

ResolveBug(t, bugId, c) ==
    /\ Ready(t)
    /\ \/ NotFound(t, "resolveBug", bugId)
       \/ /\ find(bugs[t], bugId) # 0
          /\ LET i == find(bugs[t], bugId)
                 old == bugs[t][i]
                 bug == withEntry(resolveBug(old, now), "bug_resolved")
                 b == [bugs[t] EXCEPT ![i] = bug]
                 h == Append(history[t], historyEntry(bug.id, "bug_resolved"))
                 m == updateMetrics(metrics[t], b, now)
             IN Finish(t, "resolveBug", bugId, Some(old.state), b, h, m, c)

\* isOld without the test of the state.
isOld_ignoresState(bug, cutoff) == bug.detectedAt < cutoff

\* The bugs cleanupOldBugs closes: resolved, and detected before the cutoff.
isOld(bug, cutoff) == bug.detectedAt < cutoff /\ bug.state = "resolved"

cleanupOldBugs(bs, cutoff) ==
    [i \in 1..Len(bs) |->
        IF isOld(bs[i], cutoff)
        THEN withEntry([bs[i] EXCEPT !.state = "closed"], "auto_closed")
        ELSE bs[i]]

\* The call is recorded with its argument in place of a bug id.
CleanupOldBugs(t, daysOld, c) ==
    /\ Ready(t)
    /\ LET cutoff == now - daysOld
           old == SelectSeq(bugs[t], LAMBDA bug : isOld(bug, cutoff))
           h == history[t]
                \o [k \in 1..Len(old) |-> historyEntry(old[k].id, "auto_closed")]
       IN Finish(t, "cleanupOldBugs", Some(daysOld), Null,
                 cleanupOldBugs(bugs[t], cutoff), h, metrics[t], c)

\* importBugs: createBug for every record whose id is not in the store; rs
\* gives the random part of each generated id.
RECURSIVE importBugs(_, _, _, _)
importBugs(st, data, rs, today) ==
    IF data = << >> THEN st
    ELSE importBugs(
            IF find(st.b, Head(data).id) = 0
            THEN createBug(st, Head(data), <<today, Head(rs)>>, today)
            ELSE st,
            Tail(data), Tail(rs), today)

\* Every createBug of the loop saves the three files; the last one leaves
\* them as written here.  A call that creates nothing saves nothing.
ImportBugs(t, data, rs) ==
    /\ Ready(t)
    /\ LET st == importBugs([b |-> bugs[t], h |-> history[t], m |-> metrics[t]],
                            data, rs, now)
       IN IF st.b = bugs[t]
          THEN /\ last' = [t |-> t, op |-> "importBugs", id |-> Null, pre |-> Null,
                           result |-> "ok"]
               /\ nops' = nops + 1
               /\ UNCHANGED <<bugs, history, metrics, up, bugDatabase, bugHistory,
                              metricsFile, now, avars>>
          ELSE /\ bugs' = [bugs EXCEPT ![t] = st.b]
               /\ history' = [history EXCEPT ![t] = st.h]
               /\ metrics' = [metrics EXCEPT ![t] = st.m]
               /\ bugDatabase' = Doc(jsonBugs(st.b))
               /\ bugHistory' = Doc(st.h)
               /\ metricsFile' = Doc(st.m)
               /\ last' = [t |-> t, op |-> "importBugs", id |-> Null, pre |-> Null,
                           result |-> "ok"]
               /\ nops' = nops + 1
               /\ UNCHANGED <<up, now, avars>>

\* new BugTracker(): the constructor loads the three files.  Every CLI
\* invocation constructs a tracker; a tracker whose process died is
\* constructed again.
Construct(t) ==
    /\ nops < MaxOps
    /\ bugs' = [bugs EXCEPT ![t] = loadBugs(bugDatabase)]
    /\ history' = [history EXCEPT ![t] = loadHistory(bugHistory)]
    /\ metrics' = [metrics EXCEPT ![t] = loadMetrics(metricsFile)]
    /\ up' = [up EXCEPT ![t] = TRUE]
    /\ last' = [t |-> t, op |-> "constructor", id |-> Null, pre |-> Null,
                result |-> "ok"]
    /\ nops' = nops + 1
    /\ UNCHANGED <<bugDatabase, bugHistory, metricsFile, now, avars>>

\* Time passes between operations.
Tick ==
    /\ now < MaxTime
    /\ now' = now + 1
    /\ UNCHANGED <<bugs, history, metrics, up, bugDatabase, bugHistory,
                   metricsFile, nops, last, avars>>

(* ------------------------- analyzer: constants ------------------------- *)
\* The analyzer's configuration as the source ships it.
CONFIG == [autoFixEnabled |-> FALSE, backupBeforeFix |-> TRUE]
\* No template file in the fix-templates directory.
NoTemplates == [name \in {} |-> Null]
\* A backup directory: whether it exists and the service files copied into it.
NoBackup == [exists |-> FALSE, files |-> {}]

(* ---------------------------- specifications --------------------------- *)
\* The store files found at start: none, or those left by an earlier run
\* that created a bug, analyzed it, implemented a fix and validated it, or
\* that went on to deploy the fix and resolve the bug.
SeedId == <<0, 7>>
seedCreated ==
    createBug([b |-> << >>, h |-> << >>, m |-> initializeMetrics],
              [service |-> "auth_service", severity |-> "critical",
               category |-> "security"], SeedId, 0)
seedTestingBug ==
    withEntry(validateFix(withEntry(implementFix(analyzeRootCause(seedCreated.b[1], 0)),
                                    "fix_implemented"),
                          TRUE),
              "fix_validated")
seedResolvedBug ==
    withEntry(resolveBug(withEntry(deployFix(seedTestingBug), "fix_deployed"), 0),
              "bug_resolved")
seedTestingHistory ==
    seedCreated.h \o <<historyEntry(SeedId, "fix_implemented"),
                       historyEntry(SeedId, "fix_validated")>>
seedResolvedHistory ==
    seedTestingHistory \o <<historyEntry(SeedId, "fix_deployed"),
                            historyEntry(SeedId, "bug_resolved")>>
SeedStores ==
    {[bugs |-> Absent, history |-> Absent, metrics |-> Absent],
     [bugs |-> Doc(<<seedTestingBug>>), history |-> Doc(seedTestingHistory),
      metrics |-> Doc(seedCreated.m)],
     [bugs |-> Doc(<<seedResolvedBug>>), history |-> Doc(seedResolvedHistory),
      metrics |-> Doc(updateMetrics(seedCreated.m, <<seedResolvedBug>>, 0))]}

Init ==
    /\ \E seed \in SeedStores :
          /\ bugDatabase = seed.bugs
          /\ bugHistory = seed.history
          /\ metricsFile = seed.metrics
    /\ bugs = [t \in Trackers |-> loadBugs(bugDatabase)]
    /\ history = [t \in Trackers |-> loadHistory(bugHistory)]
    /\ metrics = [t \in Trackers |-> loadMetrics(metricsFile)]
    /\ up = [t \in Trackers |-> TRUE]
    /\ now = 0
    /\ nops = 0
    /\ last = [t |-> 1, op |-> "constructor", id |-> Null, pre |-> Null,
               result |-> "ok"]
    /\ config = CONFIG
    /\ fixTemplates = NoTemplates
    /\ backupDir = NoBackup
    /\ workTree = {}
    /\ ret = Null
    /\ events = << >>

\* One operation of tracker t; with crashy, the process may die during the
\* saves of the operation.
Points(op, crashy) == IF crashy THEN AnyCrash(op) ELSE NoCrash(op)

Step(t, crashy) ==
    \/ \E d \in BugDataInputs, r \in RandInputs :
            \E c \in Points("createBug", crashy) : CreateBug(t, d, r, c)
    \/ \E id \in IdInputs(t), u \in UpdateInputs :
            \E c \in Points("updateBug", crashy) : UpdateBug(t, id, u, c)
    \/ \E id \in IdInputs(t) :
            \E c \in Points("addComment", crashy) : AddComment(t, id, c)
    \/ \E id \in IdInputs(t) :
            \E c \in Points("analyzeRootCause", crashy) : AnalyzeRootCause(t, id, c)
    \/ \E id \in IdInputs(t) :
            \E c \in Points("implementFix", crashy) : ImplementFix(t, id, c)
    \/ \E id \in IdInputs(t), p \in BOOLEAN :
            \E c \in Points("validateFix", crashy) : ValidateFix(t, id, p, c)
    \/ \E id \in IdInputs(t) :
            \E c \in Points("deployFix", crashy) : DeployFix(t, id, c)
    \/ \E id \in IdInputs(t) :
            \E c \in Points("resolveBug", crashy) : ResolveBug(t, id, c)
    \/ \E d \in DaysOldInputs :
            \E c \in Points("cleanupOldBugs", crashy) : CleanupOldBugs(t, d, c)
    \/ \E data \in ImportInputs :
            \E rs \in [1..Len(data) -> RandInputs] : ImportBugs(t, data, rs)
    \/ Construct(t)

\* One long-lived tracker, no crash: the single-process store.
Next == Step(1, FALSE) \/ Tick
Spec == Init /\ [][Next]_vars

\* The same tracker, whose process may die while an operation saves.
NextCrash == Step(1, TRUE) \/ Tick
SpecCrash == Init /\ [][NextCrash]_vars

\* Two trackers (two processes, each constructed from the files) working on
\* the same three files.
NextConc == (\E t \in Trackers : Step(t, FALSE)) \/ Tick
SpecConc == Init /\ [][NextConc]_vars

(* ------------------------ analyzer: fix planning ----------------------- *)
\* ANALYSIS_RULES[service].autoFixRules, in the order of Object.entries.  A
\* pattern /a.*b.*c/i is kept as its literal pieces <<"a", "b", "c">>.
autoFixRules ==
    [auth_service |->
        <<[name |-> "jwt-validation",
           pattern |-> <<"jwt", "validation", "failed">>,
           fix |-> "Implement proper JWT validation middleware",
           files |-> <<"src/middleware/auth.js", "src/services/jwtService.js">>,
           risk |-> "medium"],
          [name |-> "password-hash",
           pattern |-> <<"password", "hash", "error">>,
           fix |-> "Update password hashing to use bcrypt with proper salt rounds",
           files |-> <<"src/services/authService.js">>,
           risk |-> "high"]>>,
     db_service |->
        <<[name |-> "missing-index",
           pattern |-> <<"index", "missing">>,
           fix |-> "Add database indexes for frequently queried fields",
           files |-> <<"src/models/*.js">>,
           risk |-> "low"],
          [name |-> "connection-timeout",
           pattern |-> <<"connection", "timeout">>,
           fix |-> "Implement connection pooling and retry logic",
           files |-> <<"src/config/database.js">>,
           risk |-> "medium"]>>,
     ai_service |->
        <<[name |-> "file-upload",
           pattern |-> <<"file", "upload", "failed">>,
           fix |-> "Implement proper file validation and error handling",
           files |-> <<"src/middleware/upload.js", "src/services/imageService.js">>,
           risk |-> "medium"],
          [name |-> "api-timeout",
           pattern |-> <<"openai", "timeout">>,
           fix |-> "Add timeout handling and retry logic for API calls",
           files |-> <<"src/services/aiService.js">>,
           risk |-> "low"]>>,
     payment_service |->
        <<[name |-> "webhook-signature",
           pattern |-> <<"webhook", "signature", "invalid">>,
           fix |-> "Implement proper webhook signature verification",
           files |-> <<"src/middleware/webhook.js">>,
           risk |-> "high"],
          [name |-> "payment-validation",
           pattern |-> <<"payment", "validation", "failed">>,
           fix |-> "Add comprehensive payment validation",
           files |-> <<"src/services/paymentService.js">>,
           risk |-> "medium"]>>,
     notification_service |->
        <<[name |-> "email-validation",
           pattern |-> <<"invalid", "email", "address">>,
           fix |-> "Implement proper email validation",
           files |-> <<"src/services/emailService.js">>,
           risk |-> "low"],
          [name |-> "rate-limiting",
           pattern |-> <<"rate", "limit", "exceeded">>,
           fix |-> "Implement rate limiting and retry logic",
           files |-> <<"src/middleware/rateLimit.js">>,
           risk |-> "medium"]>>,
     metrics_service |->
        <<[name |-> "storage-cleanup",
           pattern |-> <<"storage", "full">>,
           fix |-> "Implement automatic metrics cleanup and retention policies",
           files |-> <<"src/services/metricsService.js">>,
           risk |-> "low"],
          [name |-> "query-optimization",
           pattern |-> <<"query", "performance", "slow">>,
           fix |-> "Optimize database queries and add indexes",
           files |-> <<"src/models/Metric.js">>,
           risk |-> "medium"]>>,
     front |->
        <<[name |-> "accessibility",
           pattern |-> <<"accessibility", "violation">>,
           fix |-> "Add missing ARIA labels and improve keyboard navigation",
           files |-> <<"src/components/**/*.jsx">>,
           risk |-> "low"],
          [name |-> "api-error-handling",
           pattern |-> <<"api", "call", "failed">>,
           fix |-> "Implement proper error handling for API calls",
           files |-> <<"src/services/api.js">>,
           risk |-> "medium"]>>]

\* An error text is a string on one line; an undefined errorMessage is tested
\* as the text "undefined".
textOf(errorMessage) == IF errorMessage = Null THEN "undefined" ELSE errorMessage[1]

\* String.prototype.includes, and the index of the first occurrence.
includes(text, piece) ==
    \E i \in 1..(Len(text) - Len(piece) + 1) :
        SubSeq(text, i, i + Len(piece) - 1) = piece
indexOf(text, piece) ==
    CHOOSE i \in 1..(Len(text) - Len(piece) + 1) :
        /\ SubSeq(text, i, i + Len(piece) - 1) = piece
        /\ \A j \in 1..(i - 1) : SubSeq(text, j, j + Len(piece) - 1) # piece

\* String.prototype.toLowerCase on the letters A to Z.
lowerChar(ch) ==
    CASE ch = "A" -> "a" [] ch = "B" -> "b" [] ch = "C" -> "c" [] ch = "D" -> "d"
      [] ch = "E" -> "e" [] ch = "F" -> "f" [] ch = "G" -> "g" [] ch = "H" -> "h"
      [] ch = "I" -> "i" [] ch = "J" -> "j" [] ch = "K" -> "k" [] ch = "L" -> "l"
      [] ch = "M" -> "m" [] ch = "N" -> "n" [] ch = "O" -> "o" [] ch = "P" -> "p"
      [] ch = "Q" -> "q" [] ch = "R" -> "r" [] ch = "S" -> "s" [] ch = "T" -> "t"
      [] ch = "U" -> "u" [] ch = "V" -> "v" [] ch = "W" -> "w" [] ch = "X" -> "x"
      [] ch = "Y" -> "y" [] ch = "Z" -> "z"
      [] OTHER -> ch
RECURSIVE toLowerCase(_)
toLowerCase(text) ==
    IF Len(text) = 0 THEN text
    ELSE lowerChar(SubSeq(text, 1, 1)) \o toLowerCase(SubSeq(text, 2, Len(text)))

\* A pattern /a.*b.*c/ matches when its literal pieces occur in the text, one
\* after the other and in their order.
RECURSIVE exec(_, _)
exec(pattern, text) ==
    IF pattern = << >> THEN TRUE
    ELSE IF ~includes(text, Head(pattern)) THEN FALSE
    ELSE exec(Tail(pattern),
              SubSeq(text, indexOf(text, Head(pattern)) + Len(Head(pattern)),
                     Len(text)))

\* rule.pattern.test(error): every pattern carries the i flag and its pieces
\* are in lower case.
test(pattern, text) == exec(pattern, toLowerCase(text))

\* findMatchingPatterns keeping the first matching rule only.
findMatchingPatterns_firstOnly(errorMessage, service) ==
    IF service \notin DOMAIN autoFixRules THEN << >>
    ELSE LET hits == SelectSeq(autoFixRules[service],
                               LAMBDA rule : test(rule.pattern, textOf(errorMessage)))
         IN IF hits = << >> THEN << >>
            ELSE <<[name |-> hits[1].name, type |-> "auto-fix", rule |-> hits[1]]>>

\* findMatchingPatterns: one entry for every auto-fix rule of the service
\* whose pattern matches; none for a service without rules.
findMatchingPatterns(errorMessage, service) ==
    IF service \notin DOMAIN autoFixRules THEN << >>
    ELSE LET hits == SelectSeq(autoFixRules[service],
                               LAMBDA rule : test(rule.pattern, textOf(errorMessage)))
         IN [k \in 1..Len(hits) |->
                [name |-> hits[k].name, type |-> "auto-fix", rule |-> hits[k]]]

\* generateCodeChanges: one example change when the rule touches auth.js.
generateCodeChanges(rule) ==
    IF \E k \in 1..Len(rule.files) : rule.files[k] = "src/middleware/auth.js"
    THEN <<[file |-> "src/middleware/auth.js"]>>
    ELSE << >>

generateManualImplementation(rule) ==
    [description |-> rule.fix, codeChanges |-> generateCodeChanges(rule)]

\* generatePatternFix: automated when a template of the rule's name was
\* loaded, manual otherwise.
generatePatternFix(pattern, templates) ==
    IF pattern.name \notin DOMAIN templates
    THEN [type |-> "manual", description |-> pattern.rule.fix,
          files |-> pattern.rule.files, risk |-> pattern.rule.risk,
          implementation |-> generateManualImplementation(pattern.rule)]
    ELSE [type |-> "automated", description |-> pattern.rule.fix,
          files |-> pattern.rule.files, risk |-> pattern.rule.risk,
          implementation |-> templates[pattern.name].implementation]

\* The service-specific step spliced in at position 3.
serviceStep(service) ==
    CASE service = "auth_service" ->
            <<"Review authentication flow and security implications">>
      [] service = "db_service" -> <<"Check database schema and query optimization">>
      [] service = "ai_service" -> <<"Verify AI model integration and API calls">>
      [] service = "payment_service" -> <<"Ensure payment security and compliance">>
      [] OTHER -> << >>

generateManualFixSteps(bug) ==
    <<"Analyze the root cause of the bug", "Identify the affected code components">>
    \o serviceStep(bug.service)
    \o <<"Implement the necessary fixes", "Add appropriate tests to prevent regression",
         "Validate the fix in a test environment", "Deploy the fix to production">>

riskLevels == [low |-> 1, medium |-> 2, high |-> 3]

\* assessFixRisk: the key of riskLevels whose level is the maximum over the
\* fixes (fixes is never empty here).
assessFixRisk(fixes) ==
    LET levels == {riskLevels[fixes[k].risk] : k \in 1..Len(fixes)}
        maxRisk == CHOOSE l \in levels : \A l2 \in levels : l2 <= l
    IN [overallRisk |-> CHOOSE key \in DOMAIN riskLevels : riskLevels[key] = maxRisk,
        details |-> [k \in 1..Len(fixes) |->
                        [description |-> fixes[k].description, risk |-> fixes[k].risk]]]

generateRollbackPlan(fixes) ==
    [description |-> "Rollback plan for applied fixes",
     steps |-> <<"Stop the affected service", "Restore from backup if available",
                 "Revert code changes", "Restart the service",
                 "Verify system stability">>,
     backupLocation |-> "Backup files stored in backup/ directory",
     rollbackScript |-> "scripts/rollback-fix.js"]

\* generateFix for a bug that was found: the value it returns.  It reads the
\* bug's errorMessage and service and writes nothing.
generateFix(bug, templates) ==
    LET patterns == findMatchingPatterns(bug.errorMessage, bug.service)
        fixes == [k \in 1..Len(patterns) |-> generatePatternFix(patterns[k], templates)]
    IN IF patterns = << >>
       THEN [canAutoFix |-> FALSE, reason |-> "No automatic fix patterns matched",
             manualSteps |-> generateManualFixSteps(bug)]
       ELSE [canAutoFix |-> TRUE, fixes |-> fixes,
             riskAssessment |-> assessFixRisk(fixes),
             rollbackPlan |-> generateRollbackPlan(fixes)]

\* The analyzer's generateFix(bugId).
GenerateFix(t, bugId) ==
    /\ Ready(t)
    /\ \/ NotFound(t, "generateFix", bugId)
       \/ /\ find(bugs[t], bugId) # 0
          /\ LET bug == bugs[t][find(bugs[t], bugId)] IN
             /\ ret' = Some(generateFix(bug, fixTemplates))
             /\ last' = [t |-> t, op |-> "generateFix", id |-> bugId,
                         pre |-> Some(bug.state), result |-> "ok"]
          /\ events' = << >>
          /\ nops' = nops + 1
          /\ UNCHANGED <<bugs, history, metrics, up, bugDatabase, bugHistory,
                         metricsFile, now, config, fixTemplates, backupDir, workTree>>

(* ----------------------- analyzer: applying a fix ---------------------- *)
\* The files of the service directory, in readdirSync order, and the files
\* that exist in the working directory of the analyzer.
ServiceFiles == <<"src/middleware/auth.js", "src/services/jwtService.js">>
ExistingFiles == {ServiceFiles[k] : k \in 1..Len(ServiceFiles)}

\* How far createBackup gets: mkdirSync throws (-1), copyFileSync throws
\* after k files were copied, or every file is copied.
BackupOutcomes == (0 - 1)..Len(ServiceFiles)

event(e, file) == [e |-> e, file |-> file]

\* createBackup then copyDirectory: the directory is made, the files are
\* copied one by one; an exception leaves what was copied so far.
createBackup(k) ==
    IF k < 0
    THEN [thrown |-> TRUE, dir |-> NoBackup, events |-> <<event("backup_begin", "")>>]
    ELSE IF k < Len(ServiceFiles)
    THEN [thrown |-> TRUE,
          dir |-> [exists |-> TRUE, files |-> {ServiceFiles[j] : j \in 1..k}],
          events |-> <<event("backup_begin", "")>>]
    ELSE [thrown |-> FALSE, dir |-> [exists |-> TRUE, files |-> ExistingFiles],
          events |-> <<event("backup_begin", ""), event("backup_done", "")>>]

\* The changes of an automated fix: fix.implementation.changes || [].
changesOf(fix) ==
    IF fix.type = "automated" /\ "changes" \in DOMAIN fix.implementation
    THEN fix.implementation.changes ELSE << >>

\* applyCodeChange(change): throws when the file does not exist, and writes
\* the change's code over the file when the change has code.
applyCodeChange(change) ==
    IF change.file \notin ExistingFiles THEN [thrown |-> TRUE, events |-> << >>]
    ELSE [thrown |-> FALSE,
          events |-> IF change.code # Null THEN <<event("write", change.file)>>
                     ELSE << >>]

changeResult(change) ==
    [type |-> "code_change", file |-> change.file,
     status |-> IF applyCodeChange(change).thrown THEN "failed" ELSE "success"]

\* applyAutomatedFix reporting success as soon as one change was applied.
applyAutomatedFix_anySuccess(fix) ==
    LET changes == changesOf(fix)
        results == [k \in 1..Len(changes) |-> changeResult(changes[k])]
    IN [fix |-> fix.description, results |-> results,
        status |-> IF changes = << >>
                      \/ \E k \in 1..Len(results) : results[k].status = "success"
                   THEN "success" ELSE "partial"]

\* applyAutomatedFix(fix): one result per change (a throwing change is caught
\* and reported failed), and the status over them.
applyAutomatedFix(fix) ==
    LET changes == changesOf(fix)
        results == [k \in 1..Len(changes) |-> changeResult(changes[k])]
    IN [fix |-> fix.description, results |-> results,
        status |-> IF \A k \in 1..Len(results) : results[k].status = "success"
                   THEN "success" ELSE "partial"]

\* applyManualFix(fix): the instructions, nothing is written.
applyManualFix(fix) ==
    [fix |-> fix.description, type |-> "manual", instructions |-> fix.implementation,
     status |-> "pending_manual_implementation"]

\* The writes of applyFixImplementation's loop, in order.
RECURSIVE writesOf(_)
writesOf(fixes) ==
    IF fixes = << >> THEN << >>
    ELSE LET changes == changesOf(Head(fixes))
             RECURSIVE each(_)
             each(k) == IF k > Len(changes) THEN << >>
                        ELSE applyCodeChange(changes[k]).events \o each(k + 1)
         IN each(1) \o writesOf(Tail(fixes))

\* applyFixImplementation(fixData): fixData.fixes of an undefined fixData, or
\* iterating the undefined fixes of a manual-only plan, is a TypeError.
applyFixImplementation(fixData) ==
    IF fixData = Null \/ "fixes" \notin DOMAIN fixData[1]
    THEN [thrown |-> TRUE, events |-> << >>, results |-> << >>]
    ELSE LET fixes == fixData[1].fixes
         IN [thrown |-> FALSE, events |-> writesOf(fixes),
             results |-> [k \in 1..Len(fixes) |->
                            IF fixes[k].type = "automated"
                            THEN applyAutomatedFix(fixes[k])
                            ELSE applyManualFix(fixes[k])]]

\* What one applyFix does: how it ends, its effects in order, the backup
\* directory it leaves and whether it reached tracker.implementFix.
outcome(result, evs, dir, changed, fixResult) ==
    [result |-> result, events |-> evs, dir |-> dir, changed |-> changed,
     fixResult |-> fixResult]

\* applyFix without the autoFixEnabled check.
applyFix_ignoresConfig(cfg, found, fixData, k) ==
    IF ~found THEN outcome("NotFound", << >>, Null, FALSE, << >>)
    ELSE LET bk == IF cfg.backupBeforeFix THEN createBackup(k)
                   ELSE [thrown |-> FALSE, dir |-> NoBackup, events |-> << >>]
             impl == applyFixImplementation(fixData)
             dir == IF cfg.backupBeforeFix THEN Some(bk.dir) ELSE Null
         IN IF bk.thrown THEN outcome("BackupFailed", bk.events, dir, FALSE, << >>)
            ELSE IF impl.thrown THEN outcome("TypeError", bk.events, dir, FALSE, << >>)
            ELSE outcome("ok",
                         bk.events \o impl.events \o <<event("bug_changed", "")>>,
                         dir, TRUE, impl.results)

\* applyFix applying the fix and updating the bug first, backing up last.
applyFix_backupLast(cfg, found, fixData, k) ==
    IF ~cfg.autoFixEnabled THEN outcome("ConfigDisabled", << >>, Null, FALSE, << >>)
    ELSE IF ~found THEN outcome("NotFound", << >>, Null, FALSE, << >>)
    ELSE LET bk == IF cfg.backupBeforeFix THEN createBackup(k)
                   ELSE [thrown |-> FALSE, dir |-> NoBackup, events |-> << >>]
             impl == applyFixImplementation(fixData)
             dir == IF cfg.backupBeforeFix THEN Some(bk.dir) ELSE Null
         IN IF impl.thrown THEN outcome("TypeError", << >>, Null, FALSE, << >>)
            ELSE outcome(IF bk.thrown THEN "BackupFailed" ELSE "ok",
                         impl.events \o <<event("bug_changed", "")>> \o bk.events,
                         dir, TRUE, impl.results)

\* applyFix(bugId, fixData): the configuration check, the lookup, the backup
\* (awaited), the implementation, then tracker.implementFix.
applyFix(cfg, found, fixData, k) ==
    IF ~cfg.autoFixEnabled THEN outcome("ConfigDisabled", << >>, Null, FALSE, << >>)
    ELSE IF ~found THEN outcome("NotFound", << >>, Null, FALSE, << >>)
    ELSE LET bk == IF cfg.backupBeforeFix THEN createBackup(k)
                   ELSE [thrown |-> FALSE, dir |-> NoBackup, events |-> << >>]
             impl == applyFixImplementation(fixData)
             dir == IF cfg.backupBeforeFix THEN Some(bk.dir) ELSE Null
         IN IF bk.thrown THEN outcome("BackupFailed", bk.events, dir, FALSE, << >>)
            ELSE IF impl.thrown THEN outcome("TypeError", bk.events, dir, FALSE, << >>)
            ELSE outcome("ok",
                         bk.events \o impl.events \o <<event("bug_changed", "")>>,
                         dir, TRUE, impl.results)

\* The files the "write" events of a run overwrite.
written(evs) == {evs[k].file : k \in {j \in 1..Len(evs) : evs[j].e = "write"}}

ApplyFix(t, bugId, fixData, k) ==
    /\ Ready(t)
    /\ LET i == find(bugs[t], bugId)
           o == applyFix(config, i # 0, fixData, k)
           old == bugs[t][i]
           bug == withEntry(implementFix(old), "fix_implemented")
           b == IF o.changed THEN [bugs[t] EXCEPT ![i] = bug] ELSE bugs[t]
           h == IF o.changed
                THEN Append(history[t], historyEntry(bugId, "fix_implemented"))
                ELSE history[t]
       IN /\ bugs' = [bugs EXCEPT ![t] = b]
          /\ history' = [history EXCEPT ![t] = h]
          /\ bugDatabase' = IF o.changed THEN Doc(jsonBugs(b)) ELSE bugDatabase
          /\ bugHistory' = IF o.changed THEN Doc(h) ELSE bugHistory
          /\ backupDir' = IF o.dir = Null THEN backupDir ELSE o.dir[1]
          /\ workTree' = workTree \cup written(o.events)
          /\ events' = o.events
          /\ ret' = IF o.result = "ok"
                    THEN Some([fix |-> bug.fix[1], result |-> o.fixResult]) ELSE ret
          /\ last' = [t |-> t, op |-> "applyFix", id |-> bugId,
                      pre |-> IF i # 0 THEN Some(old.state) ELSE Null,
                      result |-> o.result]
    /\ nops' = nops + 1
    /\ UNCHANGED <<metrics, up, metricsFile, now, config, fixTemplates>>

(* ----------------------- analyzer: validating a fix -------------------- *)
\* How the external test run ends: exit code 0, another exit code, or spawn
\* throwing.
\* What the spawned `npm test` can do: close with code 0, close with another
\* code, make spawn throw, or never close.
ClosingOutcomes == {"exit0", "exit1", "spawnThrows"}
TestOutcomes == ClosingOutcomes \cup {"neverCloses"}

\* runTests resolves with one object {status, output, exitCode}, not with an
\* array of results.  It resolves only in the child's 'close' handler and
\* sets no timer: a child that never closes leaves the promise pending.
runTests(testOutcome) ==
    [kind |-> "object",
     status |-> CASE testOutcome = "exit0" -> "passed"
                  [] testOutcome = "exit1" -> "failed"
                  [] OTHER -> "error"]
checkForRegressions == [kind |-> "array", items |-> << >>]
assessPerformanceImpact == [kind |-> "object", impact |-> "minimal"]

\* BugAnalyzer.validateFix for a bug that was found: testResults.every(...)
\* on a value that is not an array is a TypeError, thrown before the tracker
\* is reached; otherwise the overall verdict handed to tracker.validateFix.
analyzerValidateFix(testOutcome) ==
    LET testResults == runTests(testOutcome)
        regressionResults == checkForRegressions
        performanceResults == assessPerformanceImpact
    IN IF testResults.kind # "array"
       THEN [thrown |-> TRUE, overallPassed |-> FALSE]
       ELSE [thrown |-> FALSE,
             overallPassed |->
                /\ \A k \in 1..Len(testResults.items) :
                      testResults.items[k].status = "passed"
                /\ Len(regressionResults.items) = 0
                /\ performanceResults.impact = "minimal"]

AnalyzerValidateFix(t, bugId, testOutcome) ==
    /\ Ready(t)
    /\ \/ NotFound(t, "analyzer.validateFix", bugId)
       \/ /\ find(bugs[t], bugId) # 0
          /\ testOutcome \notin ClosingOutcomes
          /\ events' = <<event("tests_run", testOutcome)>>
          /\ last' = [t |-> t, op |-> "analyzer.validateFix", id |-> bugId,
                      pre |-> Some(bugs[t][find(bugs[t], bugId)].state),
                      result |-> "pending"]
          /\ nops' = nops + 1
          /\ UNCHANGED <<bugs, history, metrics, up, bugDatabase, bugHistory,
                         metricsFile, now, config, fixTemplates, backupDir,
                         workTree, ret>>
       \/ /\ find(bugs[t], bugId) # 0
          /\ testOutcome \in ClosingOutcomes
          /\ LET i == find(bugs[t], bugId)
                 old == bugs[t][i]
                 v == analyzerValidateFix(testOutcome)
                 bug == withEntry(validateFix(old, v.overallPassed), "fix_validated")
                 b == IF v.thrown THEN bugs[t] ELSE [bugs[t] EXCEPT ![i] = bug]
                 h == IF v.thrown THEN history[t]
                      ELSE Append(history[t], historyEntry(bugId, "fix_validated"))
             IN /\ bugs' = [bugs EXCEPT ![t] = b]
                /\ history' = [history EXCEPT ![t] = h]
                /\ bugDatabase' = IF v.thrown THEN bugDatabase ELSE Doc(jsonBugs(b))
                /\ bugHistory' = IF v.thrown THEN bugHistory ELSE Doc(h)
                /\ ret' = IF v.thrown THEN ret
                          ELSE Some([overallPassed |-> v.overallPassed])
                /\ events' = <<event("tests_run", testOutcome)>>
                /\ last' = [t |-> t, op |-> "analyzer.validateFix", id |-> bugId,
                            pre |-> Some(old.state),
                            result |-> IF v.thrown THEN "TypeError" ELSE "ok"]
          /\ nops' = nops + 1
          /\ UNCHANGED <<metrics, up, metricsFile, now, config, fixTemplates,
                         backupDir, workTree>>

(* ------------------------ analyzer: specification ---------------------- *)
\* The bugs analyzeTestFailure files (createBug with the test's error text):
\* a text that matches both auth rules, one that matches one db rule and one
\* that matches no rule of its service.
AnalyzerBugData ==
    {[service |-> "auth_service", severity |-> "critical", category |-> "security",
      errorMessage |-> Some("jwt validation failed after password hash error")],
     [service |-> "db_service", severity |-> "low", category |-> "data",
      errorMessage |-> Some("index missing")],
     [service |-> "auth_service", severity |-> "low", category |-> "functional",
      errorMessage |-> Some("login failed")]}
\* How far an earlier run took the bug.
SeedStages == {"detected", "analyzing", "fixing", "testing"}

seedStore(bugData, stage) ==
    LET st == createBug([b |-> << >>, h |-> << >>, m |-> initializeMetrics],
                        bugData, SeedId, 0)
        analyzed == analyzeRootCause(st.b[1], 0)
        fixed == withEntry(implementFix(analyzed), "fix_implemented")
        tested == withEntry(validateFix(fixed, TRUE), "fix_validated")
        fixedLog == Append(st.h, historyEntry(SeedId, "fix_implemented"))
    IN CASE stage = "detected" -> [b |-> st.b, h |-> st.h, m |-> st.m]
         [] stage = "analyzing" -> [b |-> <<analyzed>>, h |-> st.h, m |-> st.m]
         [] stage = "fixing" -> [b |-> <<fixed>>, h |-> fixedLog, m |-> st.m]
         [] OTHER -> [b |-> <<tested>>,
                      h |-> Append(fixedLog, historyEntry(SeedId, "fix_validated")),
                      m |-> st.m]

\* The configurations: as shipped, and with autoFixEnabled set to true (with
\* and without backupBeforeFix).
ConfigInputs ==
    {CONFIG,
     [autoFixEnabled |-> TRUE, backupBeforeFix |-> TRUE],
     [autoFixEnabled |-> TRUE, backupBeforeFix |-> FALSE]}
\* The fix-templates directory: empty, or one template for jwt-validation
\* with a change to an existing file and one to a missing file.
TemplateInputs ==
    {NoTemplates,
     [name \in {"jwt-validation"} |->
        [implementation |->
            [changes |-> <<[file |-> "src/middleware/auth.js",
                            code |-> Some("module.exports = verifyJwt;")],
                           [file |-> "src/missing.js",
                            code |-> Some("module.exports = {};")]>>]]]}

InitAnalyzer ==
    /\ \E bugData \in AnalyzerBugData, stage \in SeedStages :
          LET st == seedStore(bugData, stage)
          IN /\ bugDatabase = Doc(st.b)
             /\ bugHistory = Doc(st.h)
             /\ metricsFile = Doc(st.m)
    /\ bugs = [t \in Trackers |-> loadBugs(bugDatabase)]
    /\ history = [t \in Trackers |-> loadHistory(bugHistory)]
    /\ metrics = [t \in Trackers |-> loadMetrics(metricsFile)]
    /\ up = [t \in Trackers |-> TRUE]
    /\ now = 0
    /\ nops = 0
    /\ last = [t |-> 1, op |-> "constructor", id |-> Null, pre |-> Null,
               result |-> "ok"]
    /\ config \in ConfigInputs
    /\ fixTemplates \in TemplateInputs
    /\ backupDir = NoBackup
    /\ workTree = {}
    /\ ret = Null
    /\ events = << >>

\* The fixData a caller hands to applyFix: none (the CLI), or the value
\* generateFix returns for a bug of the store.
FixDataInputs(t) ==
    {Null} \cup {Some(generateFix(bugs[t][i], fixTemplates)) : i \in 1..Len(bugs[t])}

\* One analyzer with its tracker: the analyzer's operations and the tracker
\* methods that move a bug towards Fixing.
NextAnalyzer ==
    \/ \E id \in IdInputs(1) : GenerateFix(1, id)
    \/ \E id \in IdInputs(1), fixData \in FixDataInputs(1), k \in BackupOutcomes :
            ApplyFix(1, id, fixData, k)
    \/ \E id \in IdInputs(1), testOutcome \in TestOutcomes :
            AnalyzerValidateFix(1, id, testOutcome)
    \/ \E id \in IdInputs(1) :
            AnalyzeRootCause(1, id, Complete(savesOf["analyzeRootCause"]))
    \/ \E id \in IdInputs(1) :
            ImplementFix(1, id, Complete(savesOf["implementFix"]))
SpecAnalyzer == InitAnalyzer /\ [][NextAnalyzer]_vars

(* ------------------------ reporting and exchange ----------------------- *)
ReportTypes == {"summary", "detailed"}
ExportFormats == {"json", "csv", "xml"}

\* (resolved / total * 100).toFixed(2) + '%', kept in hundredths of a percent.
resolutionRate(m) ==
    IF m.totalBugs > 0
    THEN (2 * m.resolvedBugs * 10000 + m.totalBugs) \div (2 * m.totalBugs)
    ELSE 0

\* The entry of a bug in a detailed report.
reportLine(b) ==
    [id |-> b.id, service |-> b.service, severity |-> b.severity,
     category |-> b.category, state |-> b.state, detectedAt |-> b.detectedAt,
     resolvedAt |-> b.resolvedAt, priority |-> b.priority]

reportOf(st, reportType, today) ==
    [generatedAt |-> today, type |-> reportType,
     summary |-> [totalBugs |-> st.m.totalBugs, criticalBugs |-> st.m.criticalBugs,
                  highPriorityBugs |-> st.m.highPriorityBugs,
                  resolvedBugs |-> st.m.resolvedBugs,
                  resolutionRate |-> resolutionRate(st.m)],
     breakdown |-> [byService |-> st.m.serviceBreakdown,
                    byCategory |-> st.m.categoryBreakdown,
                    bySeverity |-> [critical |-> st.m.criticalBugs,
                                    high |-> st.m.highPriorityBugs,
                                    medium |-> st.m.mediumPriorityBugs,
                                    low |-> st.m.lowPriorityBugs]],
     trends |-> [bugTrend |-> st.m.bugTrend,
                 averageResolutionTime |-> st.m.averageResolutionTime],
     bugs |-> IF reportType = "detailed"
              THEN Some([i \in 1..Len(st.b) |-> reportLine(st.b[i])]) ELSE Null]

\* generateReport recomputing the metrics before it reads them.
generateReport_refreshesMetrics(st, reportType, today) ==
    LET m == updateMetrics(st.m, st.b, today)
    IN [b |-> st.b, h |-> st.h, m |-> m,
        report |-> reportOf([b |-> st.b, h |-> st.h, m |-> m], reportType, today)]

\* generateReport on the in-memory state st: the state it leaves and the
\* report, which is read off this.metrics (and this.bugs when detailed).
generateReport(st, reportType, today) ==
    [b |-> st.b, h |-> st.h, m |-> st.m, report |-> reportOf(st, reportType, today)]

\* The report command; the file it writes goes to the reports directory, not
\* to the store.
GenerateReport(t, reportType) ==
    /\ Ready(t)
    /\ LET r == generateReport([b |-> bugs[t], h |-> history[t], m |-> metrics[t]],
                               reportType, now)
       IN /\ bugs' = [bugs EXCEPT ![t] = r.b]
          /\ history' = [history EXCEPT ![t] = r.h]
          /\ metrics' = [metrics EXCEPT ![t] = r.m]
          /\ ret' = Some(r.report)
    /\ last' = [t |-> t, op |-> "generateReport", id |-> Null, pre |-> Null,
                result |-> "ok"]
    /\ nops' = nops + 1
    /\ UNCHANGED <<up, bugDatabase, bugHistory, metricsFile, now, config,
                   fixTemplates, backupDir, workTree, events>>

\* JSON.stringify drops the properties whose value is undefined (the
\* sub-records and resolvedAt of a bug that has none, an errorMessage the
\* creator did not give); JSON.parse gives back what was written.
OptionalFields ==
    {"title", "resolvedAt", "errorMessage", "rootCauseAnalysis", "fix", "validation",
     "deployment", "resolution"}
stringify(bs) ==
    [i \in 1..Len(bs) |->
        [f \in {g \in DOMAIN bs[i] : g \in OptionalFields => bs[i][g] # Null}
            |-> bs[i][f]]]
parse(json) == json

\* The text of a generated id.
idText(id) == "BUG-" \o String(id[1]) \o "-" \o String(id[2])

\* Array.prototype.join.
RECURSIVE join(_, _)
join(texts, sep) ==
    IF texts = << >> THEN ""
    ELSE IF Len(texts) = 1 THEN texts[1]
    ELSE texts[1] \o sep \o join(Tail(texts), sep)

\* convertToCSV: the header line, then one line for each bug with the nine
\* values `bug[header] || ''`, each put between double quotes as it is,
\* the lines joined by "\n".  A falsy value (undefined, null, NaN, 0) is
\* written as the empty text.
csvHeaders ==
    <<"id", "title", "service", "severity", "category", "state", "detectedAt",
      "resolvedAt", "priority">>
csvCell(bug, header) ==
    CASE header = "id" -> idText(bug.id)
      [] header = "title" -> IF bug.title = Null THEN "" ELSE bug.title[1]
      [] header = "detectedAt" -> String(bug.detectedAt)
      [] header = "resolvedAt" ->
            IF bug.resolvedAt = Null THEN "" ELSE String(bug.resolvedAt[1])
      [] header = "priority" ->
            IF bug.priority \in {NaN, JsonNull, 0} THEN ""
            ELSE String(bug.priority)
      [] OTHER -> IF bug[header] = "undefined" THEN "" ELSE bug[header]
csvRow(bug) ==
    join([k \in 1..Len(csvHeaders) |-> "\"" \o csvCell(bug, csvHeaders[k]) \o "\""],
         ",")
convertToCSV(bs) ==
    join(<<join(csvHeaders, ",")>> \o [i \in 1..Len(bs) |-> csvRow(bs[i])], "\n")

\* exportBugs(format): the text it returns, or Null when it throws
\* Unsupported format.
exportBugs(bs, format) ==
    CASE format = "json" -> Some([format |-> "json", data |-> stringify(bs)])
      [] format = "csv" -> Some([format |-> "csv", data |-> convertToCSV(bs)])
      [] OTHER -> Null

\* The export command; the file it writes is not a store file.
ExportBugs(t, format) ==
    /\ Ready(t)
    /\ ret' = exportBugs(bugs[t], format)
    /\ last' = [t |-> t, op |-> "exportBugs", id |-> Null, pre |-> Null,
                result |-> IF exportBugs(bugs[t], format) = Null
                           THEN "UnsupportedFormat" ELSE "ok"]
    /\ nops' = nops + 1
    /\ UNCHANGED <<bugs, history, metrics, up, bugDatabase, bugHistory, metricsFile,
                   now, config, fixTemplates, backupDir, workTree, events>>

\* exportBugs('json') of tracker t, then importBugs of that text by a tracker
\* constructed on an empty store of its own: the bugs that tracker holds
\* afterwards.  The store of t is not touched.
roundTrip(bs, rs, today) ==
    importBugs([b |-> << >>, h |-> << >>, m |-> initializeMetrics],
               parse(exportBugs(bs, "json")[1].data), rs, today).b

RoundTrip(t, rs) ==
    /\ Ready(t)
    /\ ret' = Some([imported |-> roundTrip(bugs[t], rs, now)])
    /\ last' = [t |-> t, op |-> "roundTrip", id |-> Null, pre |-> Null,
                result |-> "ok"]
    /\ nops' = nops + 1
    /\ UNCHANGED <<bugs, history, metrics, up, bugDatabase, bugHistory, metricsFile,
                   now, config, fixTemplates, backupDir, workTree, events>>

\* One tracker: the reporter, the exchange of bugs, and the operations that
\* fill and change the store in between.
NextReport ==
    \/ \E reportType \in ReportTypes : GenerateReport(1, reportType)
    \/ \E format \in ExportFormats : ExportBugs(1, format)
    \/ \E rs \in [1..Len(bugs[1]) -> RandInputs] : RoundTrip(1, rs)
    \/ \E d \in BugDataInputs, r \in RandInputs :
            CreateBug(1, d, r, Complete(savesOf["createBug"]))
    \/ \E id \in IdInputs(1) : AddComment(1, id, Complete(savesOf["addComment"]))
    \/ \E id \in IdInputs(1) : ResolveBug(1, id, Complete(savesOf["resolveBug"]))
    \/ Tick
SpecReport == Init /\ [][NextReport]_vars

\* The records of a create whose title is plain text, has two lines, or
\* holds quotes and a comma.
TitledBugData ==
    {[title |-> Some(ti), service |-> "auth_service", severity |-> "critical",
      category |-> "security"] :
        ti \in {"login fails", "first line\nsecond line", "says \"no\", twice"}}

\* The tracker of the csv export: bugs with titles, resolved or not.
NextCsv ==
    \/ \E d \in TitledBugData, r \in RandInputs :
            CreateBug(1, d, r, Complete(savesOf["createBug"]))
    \/ \E id \in IdInputs(1) : ResolveBug(1, id, Complete(savesOf["resolveBug"]))
    \/ ExportBugs(1, "csv")
    \/ Tick
SpecCsv == Init /\ [][NextCsv]_vars

(* ------------------------ analyzer: analysis report -------------------- *)
\* generateAnalysisReport for a bug that was found; it reads the bug only.
generateAnalysisReport(bug) ==
    LET patterns == findMatchingPatterns(bug.errorMessage, bug.service)
    IN [bugId |-> bug.id, service |-> bug.service, severity |-> bug.severity,
        category |-> bug.category, detectedAt |-> bug.detectedAt,
        analysis |-> [rootCause |-> bug.rootCauseAnalysis, patterns |-> patterns],
        fix |-> [available |-> bug.fix # Null, details |-> bug.fix,
                 autoFixPossible |-> patterns # << >>],
        validation |-> [status |-> IF bug.validation = Null THEN Null
                                   ELSE Some(bug.validation[1].status)]]

\* The analyzer's report command; the file goes to the analysis-reports
\* directory.
GenerateAnalysisReport(t, bugId) ==
    /\ Ready(t)
    /\ \/ NotFound(t, "generateAnalysisReport", bugId)
       \/ /\ find(bugs[t], bugId) # 0
          /\ LET bug == bugs[t][find(bugs[t], bugId)] IN
             /\ ret' = Some(generateAnalysisReport(bug))
             /\ last' = [t |-> t, op |-> "generateAnalysisReport", id |-> bugId,
                         pre |-> Some(bug.state), result |-> "ok"]
          /\ events' = << >>
          /\ nops' = nops + 1
          /\ UNCHANGED <<bugs, history, metrics, up, bugDatabase, bugHistory,
                         metricsFile, now, config, fixTemplates, backupDir, workTree>>

\* Every operation of the tracker and of the analyzer that takes a bug id,
\* called with the ids of the store and with an unknown one.
NextById ==
    \/ \E id \in IdInputs(1), u \in UpdateInputs :
            UpdateBug(1, id, u, Complete(savesOf["updateBug"]))
    \/ \E id \in IdInputs(1) : AddComment(1, id, Complete(savesOf["addComment"]))
    \/ \E id \in IdInputs(1) :
            AnalyzeRootCause(1, id, Complete(savesOf["analyzeRootCause"]))
    \/ \E id \in IdInputs(1) : ImplementFix(1, id, Complete(savesOf["implementFix"]))
    \/ \E id \in IdInputs(1), p \in BOOLEAN :
            ValidateFix(1, id, p, Complete(savesOf["validateFix"]))
    \/ \E id \in IdInputs(1) : DeployFix(1, id, Complete(savesOf["deployFix"]))
    \/ \E id \in IdInputs(1) : ResolveBug(1, id, Complete(savesOf["resolveBug"]))
    \/ \E id \in IdInputs(1) : GenerateFix(1, id)
    \/ \E id \in IdInputs(1), fixData \in FixDataInputs(1), k \in BackupOutcomes :
            ApplyFix(1, id, fixData, k)
    \/ \E id \in IdInputs(1), testOutcome \in TestOutcomes :
            AnalyzerValidateFix(1, id, testOutcome)
    \/ \E id \in IdInputs(1) : GenerateAnalysisReport(1, id)
\* Auto-fix is enabled, with the backup as shipped, and a template is loaded,
\* so that applyFix gets past its configuration check and has files to write.
InitById ==
    /\ InitAnalyzer
    /\ config.autoFixEnabled /\ config.backupBeforeFix
    /\ fixTemplates # NoTemplates
SpecById == InitById /\ [][NextById]_vars

(* --------------------------- applying a plan --------------------------- *)
\* Template directories: a jwt-validation template whose second file is
\* missing; one whose changes all apply (the second has no code); and one
\* with a template for each auth rule, the second without changes.
ApplyTemplates ==
    {[name \in {"jwt-validation"} |->
        [implementation |->
            [changes |-> <<[file |-> "src/middleware/auth.js",
                            code |-> Some("module.exports = verifyJwt;")],
                           [file |-> "src/missing.js",
                            code |-> Some("module.exports = {};")]>>]]],
     [name \in {"jwt-validation"} |->
        [implementation |->
            [changes |-> <<[file |-> "src/middleware/auth.js",
                            code |-> Some("module.exports = verifyJwt;")],
                           [file |-> "src/services/jwtService.js",
                            code |-> Null]>>]]],
     [name \in {"jwt-validation", "password-hash"} |->
        IF name = "jwt-validation"
        THEN [implementation |->
                [changes |-> <<[file |-> "src/services/jwtService.js",
                                code |-> Some("module.exports = sign;")]>>]]
        ELSE [implementation |-> [description |-> "use bcrypt"]]]}

\* Auto-fix is enabled and a bug left by an earlier run is in the store.
InitApply ==
    /\ \E bugData \in AnalyzerBugData, stage \in SeedStages :
          LET st == seedStore(bugData, stage)
          IN /\ bugDatabase = Doc(st.b)
             /\ bugHistory = Doc(st.h)
             /\ metricsFile = Doc(st.m)
    /\ bugs = [t \in Trackers |-> loadBugs(bugDatabase)]
    /\ history = [t \in Trackers |-> loadHistory(bugHistory)]
    /\ metrics = [t \in Trackers |-> loadMetrics(metricsFile)]
    /\ up = [t \in Trackers |-> TRUE]
    /\ now = 0
    /\ nops = 0
    /\ last = [t |-> 1, op |-> "constructor", id |-> Null, pre |-> Null,
               result |-> "ok"]
    /\ config \in {cfg \in ConfigInputs : cfg.autoFixEnabled}
    /\ fixTemplates \in ApplyTemplates
    /\ backupDir = NoBackup
    /\ workTree = {}
    /\ ret = Null
    /\ events = << >>

\* The analyzer planning a fix and applying the plan.
NextApply ==
    \/ \E id \in IdInputs(1) : GenerateFix(1, id)
    \/ \E id \in IdInputs(1), fixData \in FixDataInputs(1), k \in BackupOutcomes :
            ApplyFix(1, id, fixData, k)
    \/ \E id \in IdInputs(1) :
            AnalyzeRootCause(1, id, Complete(savesOf["analyzeRootCause"]))
SpecApply == InitApply /\ [][NextApply]_vars

(* ------------------------------ 5 Whys --------------------------------- *)
\* The store an earlier run left: one bug of any category and severity.
InitAnalyze ==
    /\ \E category \in BUG_CATEGORIES, severity \in SEVERITY_LEVELS,
          service \in {"auth_service", "db_service"} :
          LET st == createBug([b |-> << >>, h |-> << >>, m |-> initializeMetrics],
                              [service |-> service, severity |-> severity,
                               category |-> category], SeedId, 0)
          IN /\ bugDatabase = Doc(st.b)
             /\ bugHistory = Doc(st.h)
             /\ metricsFile = Doc(st.m)
    /\ bugs = [t \in Trackers |-> loadBugs(bugDatabase)]
    /\ history = [t \in Trackers |-> loadHistory(bugHistory)]
    /\ metrics = [t \in Trackers |-> loadMetrics(metricsFile)]
    /\ up = [t \in Trackers |-> TRUE]
    /\ now = 0
    /\ nops = 0
    /\ last = [t |-> 1, op |-> "constructor", id |-> Null, pre |-> Null,
               result |-> "ok"]
    /\ config = CONFIG
    /\ fixTemplates = NoTemplates
    /\ backupDir = NoBackup
    /\ workTree = {}
    /\ ret = Null
    /\ events = << >>

\* The tracker analyzing the bug, commenting on it, and the clock.
NextAnalyze ==
    \/ \E id \in IdInputs(1) :
            AnalyzeRootCause(1, id, Complete(savesOf["analyzeRootCause"]))
    \/ \E id \in IdInputs(1) : AddComment(1, id, Complete(savesOf["addComment"]))
    \/ Tick
SpecAnalyze == InitAnalyze /\ [][NextAnalyze]_vars

(* ------------------------------- cleanup ------------------------------- *)
\* The tracker with the operations that add bugs, resolve them, close the
\* old ones or reload the store, and the clock.
NextCleanup ==
    \/ \E d \in BugDataInputs, r \in RandInputs :
            \E c \in NoCrash("createBug") : CreateBug(1, d, r, c)
    \/ \E id \in IdInputs(1) :
            \E c \in NoCrash("resolveBug") : ResolveBug(1, id, c)
    \/ \E d \in DaysOldInputs :
            \E c \in NoCrash("cleanupOldBugs") : CleanupOldBugs(1, d, c)
    \/ \E data \in ImportInputs :
            \E rs \in [1..Len(data) -> RandInputs] : ImportBugs(1, data, rs)
    \/ Construct(1)
    \/ Tick
SpecCleanup == Init /\ [][NextCleanup]_vars

(* --------------------------- failing writes ---------------------------- *)
\* One tracker whose writes may fail (disk full, file not writable): every
\* save of an operation either works or throws inside its save method.
WritePoints(op) == {Complete(savesOf[op])} \cup FailPoints(savesOf[op])
NextWriteFail ==
    \/ \E d \in BugDataInputs, r \in RandInputs :
            \E c \in WritePoints("createBug") : CreateBug(1, d, r, c)
    \/ \E id \in IdInputs(1) :
            \E c \in WritePoints("addComment") : AddComment(1, id, c)
    \/ \E id \in IdInputs(1) :
            \E c \in WritePoints("analyzeRootCause") : AnalyzeRootCause(1, id, c)
    \/ \E id \in IdInputs(1) :
            \E c \in WritePoints("resolveBug") : ResolveBug(1, id, c)
    \/ Construct(1)
    \/ Tick
SpecWriteFail == Init /\ [][NextWriteFail]_vars

(* ------------------------------ detection ------------------------------ *)
\* ANALYSIS_RULES: the severity patterns of each service, a pattern being the
\* sequence of its literal pieces.
ANALYSIS_RULES ==
    [auth_service |->
        [criticalPatterns |->
            <<<<"jwt", "invalid">>,
              <<"authentication", "failed">>,
              <<"password", "hash", "error">>,
              <<"oauth", "callback", "error">>>>,
         highPatterns |->
            <<<<"login", "failed">>,
              <<"session", "expired">>,
              <<"token", "expired">>>>,
         mediumPatterns |->
            <<<<"validation", "error">>,
              <<"input", "invalid">>>>],
     db_service |->
        [criticalPatterns |->
            <<<<"database", "connection", "failed">>,
              <<"mongodb", "error">>,
              <<"query", "timeout">>>>,
         highPatterns |->
            <<<<"index", "missing">>,
              <<"duplicate", "key">>,
              <<"validation", "failed">>>>,
         mediumPatterns |->
            <<<<"slow", "query">>,
              <<"connection", "pool", "exhausted">>>>],
     ai_service |->
        [criticalPatterns |->
            <<<<"openai", "api", "error">>,
              <<"file", "upload", "failed">>,
              <<"memory", "leak">>>>,
         highPatterns |->
            <<<<"image", "processing", "error">>,
              <<"model", "loading", "failed">>>>,
         mediumPatterns |->
            <<<<"response", "timeout">>,
              <<"invalid", "file", "type">>>>],
     payment_service |->
        [criticalPatterns |->
            <<<<"stripe", "webhook", "failed">>,
              <<"payment", "processing", "error">>,
              <<"security", "violation">>>>,
         highPatterns |->
            <<<<"transaction", "failed">>,
              <<"webhook", "signature", "invalid">>>>,
         mediumPatterns |->
            <<<<"currency", "conversion", "error">>,
              <<"refund", "failed">>>>],
     notification_service |->
        [criticalPatterns |->
            <<<<"email", "delivery", "failed">>,
              <<"sms", "sending", "error">>,
              <<"template", "not", "found">>>>,
         highPatterns |->
            <<<<"rate", "limit", "exceeded">>,
              <<"invalid", "email", "address">>>>,
         mediumPatterns |->
            <<<<"notification", "queue", "full">>,
              <<"template", "rendering", "error">>>>],
     metrics_service |->
        [criticalPatterns |->
            <<<<"metrics", "collection", "failed">>,
              <<"prometheus", "error">>,
              <<"data", "corruption">>>>,
         highPatterns |->
            <<<<"aggregation", "failed">>,
              <<"storage", "full">>>>,
         mediumPatterns |->
            <<<<"query", "performance", "slow">>,
              <<"cache", "miss">>>>],
     front |->
        [criticalPatterns |->
            <<<<"react", "error">>,
              <<"javascript", "error">>,
              <<"accessibility", "violation">>>>,
         highPatterns |->
            <<<<"component", "rendering", "failed">>,
              <<"api", "call", "failed">>>>,
         mediumPatterns |->
            <<<<"performance", "issue">>,
              <<"responsive", "design", "broken">>>>]]

matchesAny(patterns, text) == \E k \in 1..Len(patterns) : test(patterns[k], text)

\* determineSeverity: medium for a service without rules, else the first of
\* critical, high and medium with a matching pattern, else low.
determineSeverity(error, service) ==
    IF service \notin DOMAIN ANALYSIS_RULES THEN "medium"
    ELSE LET rules == ANALYSIS_RULES[service]
         IN IF matchesAny(rules.criticalPatterns, error) THEN "critical"
            ELSE IF matchesAny(rules.highPatterns, error) THEN "high"
            ELSE IF matchesAny(rules.mediumPatterns, error) THEN "medium"
            ELSE "low"

\* determineCategory: keyword groups looked up in the lower-cased text, in
\* this order; the service is not read.
determineCategory(error, service) ==
    LET errorLower == toLowerCase(error)
        any(words) == \E w \in words : includes(errorLower, w)
    IN IF any({"security", "authentication", "authorization"}) THEN "security"
       ELSE IF any({"performance", "timeout", "slow"}) THEN "performance"
       ELSE IF any({"accessibility", "aria", "screen reader"}) THEN "accessibility"
       ELSE IF any({"database", "connection", "query"}) THEN "data"
       ELSE IF any({"api", "integration", "service"}) THEN "integration"
       ELSE "functional"

\* The names of the matching rules, in the order of the rules.
names(patterns) == [k \in 1..Len(patterns) |-> patterns[k].name]

\* analyzeTestFailure filing the bug without its tags.
analyzeTestFailure_untagged(st, testResult, id, today) ==
    createBug(st,
              [service |-> testResult.service,
               severity |-> determineSeverity(testResult.error[1], testResult.service),
               category |-> determineCategory(testResult.error[1], testResult.service),
               errorMessage |-> testResult.error],
              id, today)

\* analyzeTestFailure: severity and category are never empty, so the bug is
\* always created, through the tracker.
analyzeTestFailure(st, testResult, id, today) ==
    createBug(st,
              [service |-> testResult.service,
               severity |-> determineSeverity(testResult.error[1], testResult.service),
               category |-> determineCategory(testResult.error[1], testResult.service),
               errorMessage |-> testResult.error,
               tags |-> names(findMatchingPatterns(testResult.error,
                                                   testResult.service))],
              id, today)

\* detectBugsFromTestResults: the failed records, one after the other; rs are
\* the random parts of the ids createBug draws, one for each record.
RECURSIVE detectBugsFromTestResults(_, _, _, _)
detectBugsFromTestResults(st, testResults, rs, today) ==
    IF testResults = << >> THEN st
    ELSE LET result == Head(testResults)
             next == IF result.status = "failed"
                     THEN analyzeTestFailure(st, result, generateBugId(Head(rs)), today)
                     ELSE st
         IN detectBugsFromTestResults(next, Tail(testResults), Tail(rs), today)

\* The records a test run hands over: a failed test carries its error text.
TestResultInputs ==
    {[service |-> "db_service", status |-> "failed",
      error |-> Some("Connection timeout: index missing")],
     [service |-> "mail_service", status |-> "failed", error |-> Some("boom")],
     [service |-> "auth_service", status |-> "passed", error |-> Null],
     [service |-> "db_service", status |-> "skipped", error |-> Null]}
BatchSizes == 0..2
\* Detection and classification runs in one behaviour.
MaxRuns == 1
Batches == UNION {[1..n -> TestResultInputs] : n \in BatchSizes}

DetectBugs(t, testResults, rs) ==
    /\ Ready(t)
    /\ nops < MaxRuns
    /\ LET st == detectBugsFromTestResults(
                    [b |-> bugs[t], h |-> history[t], m |-> metrics[t]],
                    testResults, rs, now)
           saved == Len(st.b) # Len(bugs[t])
       IN /\ bugs' = [bugs EXCEPT ![t] = st.b]
          /\ history' = [history EXCEPT ![t] = st.h]
          /\ metrics' = [metrics EXCEPT ![t] = st.m]
          /\ bugDatabase' = IF saved THEN Doc(jsonBugs(st.b)) ELSE bugDatabase
          /\ bugHistory' = IF saved THEN Doc(st.h) ELSE bugHistory
          /\ metricsFile' = IF saved THEN Doc(st.m) ELSE metricsFile
          /\ ret' = Some([testResults |-> testResults,
                          detectedBugs |-> SubSeq(st.b, Len(bugs[t]) + 1, Len(st.b))])
    /\ last' = [t |-> t, op |-> "detectBugsFromTestResults", id |-> Null,
                pre |-> Null, result |-> "ok"]
    /\ nops' = nops + 1
    /\ UNCHANGED <<up, now, config, fixTemplates, backupDir, workTree, events>>

\* The error texts and services the classification is applied to.
ErrorInputs ==
    {"jwt validation failed", "JWT token invalid after login failed",
     "login failed on validation error", "input invalid", "Authentication failed",
     "query timeout", "boom"}
ServiceInputs == {"auth_service", "db_service", "mail_service"}

\* The classification of one error text, as analyzeTestFailure computes it.
Classify(t, error, service) ==
    /\ Ready(t)
    /\ nops < MaxRuns
    /\ ret' = Some([error |-> error, service |-> service,
                    severity |-> determineSeverity(error, service),
                    category |-> determineCategory(error, service)])
    /\ last' = [t |-> t, op |-> "classify", id |-> Null, pre |-> Null,
                result |-> "ok"]
    /\ nops' = nops + 1
    /\ UNCHANGED <<bugs, history, metrics, up, bugDatabase, bugHistory, metricsFile,
                   now, config, fixTemplates, backupDir, workTree, events>>

\* The batches of one test run are detected within the same millisecond.
NextDetect ==
    \E testResults \in Batches :
        \E rs \in [1..Len(testResults) -> RandInputs] :
            DetectBugs(1, testResults, rs)
SpecDetect == Init /\ [][NextDetect]_vars

NextClassify ==
    \/ \E error \in ErrorInputs, service \in ServiceInputs :
            Classify(1, error, service)
    \/ Tick
SpecClassify == Init /\ [][NextClassify]_vars

(* --------------------------- free-form input --------------------------- *)
\* getBugsByPriority: the open bugs, sorted with the comparator
\* (a, b) => b.priority - a.priority, cut to the limit.  A comparator result
\* of NaN counts as 0; the sort is stable, so bugs that compare equal keep
\* the order of the store.
comparePriority(a, b) ==
    IF a.priority = NaN \/ b.priority = NaN THEN 0
    ELSE (IF b.priority = JsonNull THEN 0 ELSE b.priority)
         - (IF a.priority = JsonNull THEN 0 ELSE a.priority)

RECURSIVE insertSorted(_, _)
insertSorted(sorted, x) ==
    IF sorted = << >> THEN <<x>>
    ELSE IF comparePriority(x, sorted[Len(sorted)]) < 0
         THEN Append(insertSorted(SubSeq(sorted, 1, Len(sorted) - 1), x),
                     sorted[Len(sorted)])
         ELSE Append(sorted, x)

RECURSIVE sort(_)
sort(s) ==
    IF s = << >> THEN << >>
    ELSE insertSorted(sort(SubSeq(s, 1, Len(s) - 1)), s[Len(s)])

DefaultLimit == 10
getBugsByPriority(bs, limit) ==
    LET open == SelectSeq(bs, LAMBDA b : b.state # "resolved" /\ b.state # "closed")
        sorted == sort(open)
    IN SubSeq(sorted, 1, IF Len(sorted) < limit THEN Len(sorted) ELSE limit)

GetBugsByPriority(t) ==
    /\ Ready(t)
    /\ ret' = Some([queue |-> getBugsByPriority(bugs[t], DefaultLimit)])
    /\ last' = [t |-> t, op |-> "getBugsByPriority", id |-> Null, pre |-> Null,
                result |-> "ok"]
    /\ nops' = nops + 1
    /\ UNCHANGED <<bugs, history, metrics, up, bugDatabase, bugHistory, metricsFile,
                   now, config, fixTemplates, backupDir, workTree, events>>

\* What the CLI's create hands to createBug: args[3], args[4] and args[5];
\* an argument left out is undefined (kept as the text "undefined").
CliBugData ==
    {[service |-> "auth_service", severity |-> "critical", category |-> "security"],
     [service |-> "auth_service", severity |-> "undefined", category |-> "undefined"]}

\* Field updates a caller hands to updateBug: Object.assign copies every
\* field of the record onto the bug.
FieldUpdates ==
    {[id |-> <<88, 0>>], [detectedAt |-> 5], [comments |-> << >>],
     [history |-> << >>], [severity |-> "urgent"]}

\* The tracker under free-form caller input.
NextFields ==
    \/ \E d \in CliBugData, r \in RandInputs :
            \E c \in NoCrash("createBug") : CreateBug(1, d, r, c)
    \/ \E id \in IdInputs(1), u \in FieldUpdates :
            \E c \in NoCrash("updateBug") : UpdateBug(1, id, u, c)
    \/ \E id \in IdInputs(1) :
            \E c \in NoCrash("addComment") : AddComment(1, id, c)
    \/ GetBugsByPriority(1)
    \/ Construct(1)
    \/ Tick
SpecFields == Init /\ [][NextFields]_vars

(* ------------------------------- claims -------------------------------- *)
\* The edges of the lifecycle the specification allows.
LifecycleEdges ==
    {<<"detected", "analyzing">>, <<"analyzing", "fixing">>, <<"fixing", "testing">>,
     <<"testing", "deploying">>, <<"deploying", "resolved">>, <<"resolved", "closed">>,
     <<"testing", "fixing">>}
\* The source states each named transition action is specified to require.
requiredSource ==
    [analyzeRootCause |-> {"detected"}, implementFix |-> {"analyzing", "fixing"},
     validateFix |-> {"fixing"}, deployFix |-> {"testing"},
     resolveBug |-> {"deploying"}]
SingleBugOps ==
    {"createBug", "updateBug", "addComment", "analyzeRootCause", "implementFix",
     "validateFix", "deployFix", "resolveBug"}
\* The indices of the bugs tracker t holds before and after a step.
Kept(t) == {i \in 1..Len(bugs[t]) : i <= Len(bugs'[t])}
IsPrefix(s, u) == Len(s) <= Len(u) /\ \A k \in 1..Len(s) : u[k] = s[k]

\* C1: every change of a bug's state, by any store operation, is one of the
\* seven lifecycle edges (the six forward edges and Testing -> Fixing).
C1_OnlyLifecycleEdges ==
    [][\A t \in Trackers : \A i \in Kept(t) :
          bugs'[t][i].state # bugs[t][i].state
          => <<bugs[t][i].state, bugs'[t][i].state>> \in LifecycleEdges]_vars

\* C2: a named transition action invoked on a bug that is not in the
\* action's required source state fails with InvalidTransition and leaves
\* the bugs and the history log unchanged.
C2_InvalidTransitionRejected ==
    [][(/\ nops' # nops
        /\ last'.op \in DOMAIN requiredSource
        /\ last'.pre # Null
        /\ last'.pre[1] \notin requiredSource[last'.op])
       => (/\ last'.result = "InvalidTransition"
           /\ bugs' = bugs
           /\ history' = history)]_vars

\* C3: every bug's priority is severityWeight(severity) * categoryWeight(category).
C3_PriorityIsWeightProduct ==
    \A t \in Trackers : \A i \in 1..Len(bugs[t]) :
        bugs[t][i].priority
            = severityWeight[bugs[t][i].severity] * categoryWeight[bugs[t][i].category]

\* C4: every mutating operation appends exactly one history entry for its bug
\* to the history log (cleanup: one for each bug it closes).
C4_OneHistoryEntryPerMutation ==
    [][(/\ nops' # nops
        /\ last'.result = "ok"
        /\ last'.op \in SingleBugOps \cup {"cleanupOldBugs"})
       => LET t == last'.t
              closed == {i \in Kept(t) : /\ bugs'[t][i].state = "closed"
                                         /\ bugs[t][i].state # "closed"}
              n == IF last'.op \in SingleBugOps THEN 1 ELSE Cardinality(closed)
          IN /\ Len(history'[t]) = Len(history[t]) + n
             /\ IsPrefix(history[t], history'[t])
             /\ last'.op \in SingleBugOps
                    => history'[t][Len(history'[t])].bugId = last'.id]_vars

\* C5: whatever happens while an operation persists, the three files afterwards
\* are all as before the operation, or all as the completed operation leaves
\* them (the files it saves hold its result, no file is torn).
C5_CrashLeavesOldOrNew ==
    [][(nops' # nops /\ last'.op \in DOMAIN savesOf)
       => LET t == last'.t
              saved == {savesOf[last'.op][k] : k \in 1..Len(savesOf[last'.op])}
          IN \/ /\ bugDatabase' = bugDatabase
                /\ bugHistory' = bugHistory
                /\ metricsFile' = metricsFile
             \/ /\ bugDatabase' = IF "bugs" \in saved THEN Doc(bugs'[t])
                                  ELSE bugDatabase
                /\ bugHistory' = IF "history" \in saved THEN Doc(history'[t])
                                 ELSE bugHistory
                /\ metricsFile' = IF "metrics" \in saved THEN Doc(metrics'[t])
                                  ELSE metricsFile]_vars

\* C6: with two trackers working on the same files no update is lost: a
\* persisted bug stays persisted and the persisted history log is only ever
\* extended.
C6_NoLostUpdate ==
    [][LET old == loadBugs(bugDatabase)
           new == loadBugs(bugDatabase')
       IN /\ {old[i].id : i \in 1..Len(old)} \subseteq {new[i].id : i \in 1..Len(new)}
          /\ IsPrefix(loadHistory(bugHistory), loadHistory(bugHistory'))]_vars

\* C7: resolvedAt is set exactly once, at the moment the bug enters Resolved,
\* and never changes afterwards.
C7_ResolvedAtSetOnce ==
    [][\A t \in Trackers : \A i \in Kept(t) :
          LET o == bugs[t][i]
              n == bugs'[t][i]
          IN /\ o.resolvedAt # Null => n.resolvedAt = o.resolvedAt
             /\ n.resolvedAt # o.resolvedAt
                    => (n.state = "resolved" /\ o.state # "resolved")
             /\ (n.state = "resolved" /\ o.state # "resolved")
                    => n.resolvedAt # Null]_vars

\* C8: a bug becomes Closed only by cleanup, from Resolved, and a Closed bug
\* never changes state again.
C8_ClosedOnlyByCleanupAndTerminal ==
    [][\A t \in Trackers : \A i \in Kept(t) :
          /\ (bugs'[t][i].state = "closed" /\ bugs[t][i].state # "closed")
                => (bugs[t][i].state = "resolved" /\ last'.op = "cleanupOldBugs")
          /\ bugs[t][i].state = "closed" => bugs'[t][i].state = "closed"]_vars

\* C9: the stored metrics equal the values recomputed from the current bugs:
\* the total, the per-severity, per-service and per-category counts and the
\* number of bugs in Resolved.
NumberWith(bs, field, v) == Cardinality({i \in 1..Len(bs) : bs[i][field] = v})
C9_MetricsMatchBugs ==
    \A t \in Trackers :
        LET m == metrics[t]
            bs == bugs[t]
        IN /\ m.totalBugs = Len(bs)
           /\ m.criticalBugs = NumberWith(bs, "severity", "critical")
           /\ m.highPriorityBugs = NumberWith(bs, "severity", "high")
           /\ m.mediumPriorityBugs = NumberWith(bs, "severity", "medium")
           /\ m.lowPriorityBugs = NumberWith(bs, "severity", "low")
           /\ m.resolvedBugs = NumberWith(bs, "state", "resolved")
           /\ DOMAIN m.serviceBreakdown = {bs[i].service : i \in 1..Len(bs)}
           /\ \A k \in DOMAIN m.serviceBreakdown :
                 m.serviceBreakdown[k] = NumberWith(bs, "service", k)
           /\ DOMAIN m.categoryBreakdown = {bs[i].category : i \in 1..Len(bs)}
           /\ \A k \in DOMAIN m.categoryBreakdown :
                 m.categoryBreakdown[k] = NumberWith(bs, "category", k)

\* C10: createBug adds exactly one bug, in state Detected, whose priority is
\* the weight product of the supplied severity and category, whatever other
\* fields the caller's record carries (importBugs hands it whole exported
\* bugs, with their state, priority and resolvedAt).
C10_CreateLandsDetected ==
    [][(nops' # nops /\ last'.op \in {"createBug", "importBugs"}
        /\ last'.result = "ok")
       => LET t == last'.t
              n == Len(bugs[t])
          IN /\ last'.op = "createBug" => Len(bugs'[t]) = n + 1
             /\ IsPrefix(bugs[t], bugs'[t])
             /\ \A i \in (n + 1)..Len(bugs'[t]) :
                   LET bug == bugs'[t][i]
                   IN /\ bug.state = "detected"
                      /\ \E d \in BugDataInputs :
                           /\ bug.severity = d.severity
                           /\ bug.category = d.category
                           /\ bug.service = d.service
                      /\ bug.priority
                           = severityWeight[bug.severity]
                             * categoryWeight[bug.category]]_vars
\* A critical security bug of priority 16 is in the store, and createBug has
\* just added a second bug from a record that also carried state "resolved"
\* and priority 16: it is Detected with priority 1 * 4.
C10_Witness ==
    /\ last.op = "createBug" /\ last.result = "ok"
    /\ Len(bugs[1]) = 2
    /\ bugs[1][1].severity = "critical" /\ bugs[1][1].category = "security"
    /\ bugs[1][1].priority = 16
    /\ bugs[1][2].id = last.id
    /\ bugs[1][2].severity = "low" /\ bugs[1][2].category = "security"
    /\ bugs[1][2].state = "detected" /\ bugs[1][2].priority = 4

\* C11: analyzeRootCause on a Detected bug moves it to Analyzing and attaches
\* an analysis whose rootCause is present; on a bug that is not Detected (one
\* already analyzed, for instance) it fails with InvalidTransition and
\* changes nothing.
C11_AnalyzeOnceFromDetected ==
    [][(nops' # nops /\ last'.op = "analyzeRootCause" /\ last'.pre # Null)
       => LET t == last'.t
              i == find(bugs[t], last'.id)
          IN IF last'.pre[1] = "detected"
             THEN /\ last'.result = "ok"
                  /\ bugs'[t][i].state = "analyzing"
                  /\ bugs'[t][i].rootCauseAnalysis # Null
                  /\ bugs'[t][i].rootCauseAnalysis[1].rootCause # ""
             ELSE /\ last'.result = "InvalidTransition"
                  /\ bugs' = bugs]_vars

\* The bug an analyzer operation was called on, before and after the step.
TargetBefore == bugs[last'.t][find(bugs[last'.t], last'.id)]
TargetAfter == bugs'[last'.t][find(bugs[last'.t], last'.id)]
\* The step is a call of the analyzer operation op on a bug of the store.
AnalyzerCall(op) == nops' # nops /\ last'.op = op /\ last'.pre # Null

\* C12: validate on a bug in Fixing moves it to Testing when the overall
\* validation passes (the test run exits with 0; no regression and minimal
\* performance impact are fixed) and leaves it in Fixing otherwise; a failed
\* validation never puts the bug in Testing.
C12_ValidateMovesFixingBug ==
    [][(AnalyzerCall("analyzer.validateFix") /\ last'.pre = Some("fixing"))
       => IF events'[1].file = "exit0"
          THEN TargetAfter.state = "testing"
          ELSE TargetAfter.state = "fixing"]_vars

\* C13: validate completes, for every outcome of the external test run, with
\* a validation result recorded on the bug, which is passed exactly when the
\* tests passed, there is no regression and the performance impact is minimal.
C13_ValidateRecordsResult ==
    [][AnalyzerCall("analyzer.validateFix")
       => /\ last'.result = "ok"
          /\ TargetAfter.validation # Null
          /\ TargetAfter.validation[1].status = "passed"
                <=> events'[1].file = "exit0"
          /\ Len(history'[last'.t]) = Len(history[last'.t]) + 1]_vars

\* C14: with autoFixEnabled false, as shipped, applyFix fails with the
\* auto-fix-disabled error for every bug id, known or not, and has no effect:
\* no backup directory, no file written, no bug or history change, nothing
\* saved.
C14_DisabledApplyFixDoesNothing ==
    [][(nops' # nops /\ last'.op = "applyFix" /\ ~config.autoFixEnabled)
       => /\ last'.result = "ConfigDisabled"
          /\ events' = << >>
          /\ UNCHANGED <<bugs, history, metrics, bugDatabase, bugHistory,
                         metricsFile, backupDir, workTree>>]_vars
\* applyFix was called, with the plan generateFix returns, on the stored bug
\* in fixing under the shipped configuration with a template loaded, and
\* failed; nothing was backed up or written.
C14_Witness ==
    /\ config = CONFIG
    /\ last.op = "applyFix" /\ last.result = "ConfigDisabled"
    /\ last.id = SeedId /\ last.pre = Some("fixing")
    /\ DOMAIN fixTemplates # {}
    /\ bugs[1][1].service = "auth_service" /\ bugs[1][1].errorMessage # Some("login failed")
    /\ backupDir = NoBackup /\ workTree = {}

\* The effects of a run are in order: every file write and the change of the
\* bug come after the backup is done.
BackupFirst(evs) ==
    \A j \in 1..Len(evs) :
        evs[j].e \in {"write", "bug_changed"}
            => \E k \in 1..(j - 1) : evs[k].e = "backup_done"
BackupIsComplete == backupDir.exists /\ backupDir.files = ExistingFiles

\* C15: with autoFixEnabled and backupBeforeFix true, applyFix finishes the
\* backup before it writes the first file and before it changes the bug: a
\* run that wrote a file or changed the bug has a complete backup.
C15_BackupBeforeFirstWrite ==
    (last.op = "applyFix" /\ config.autoFixEnabled /\ config.backupBeforeFix)
        => /\ BackupFirst(events)
           /\ (\E j \in 1..Len(events) : events[j].e \in {"write", "bug_changed"})
                 => BackupIsComplete
\* An enabled applyFix ran to the end: backup begun and done, auth.js
\* written, then the bug changed.
C15_Witness ==
    /\ config.autoFixEnabled /\ config.backupBeforeFix
    /\ last.op = "applyFix" /\ last.result = "ok"
    /\ events = <<event("backup_begin", ""), event("backup_done", ""),
                  event("write", "src/middleware/auth.js"),
                  event("bug_changed", "")>>
    /\ workTree = {"src/middleware/auth.js"}
    /\ BackupIsComplete

\* C16: the backup directory exists completely or not at all, also when
\* the copy fails partway.
C16_BackupAllOrNothing ==
    backupDir.exists => backupDir.files = ExistingFiles

\* C17: applyFix succeeds only on a bug that is in Fixing and carries a fix,
\* and leaves it in Fixing; it never changes the state of a bug.
C17_ApplyFixOnlyInFixing ==
    [][AnalyzerCall("applyFix")
       => /\ last'.result = "ok"
                => (TargetBefore.state = "fixing" /\ TargetBefore.fix # Null)
          /\ TargetAfter.state = TargetBefore.state]_vars

\* C18: generateFix on a bug in Analyzing that has a root-cause analysis
\* writes the fix plan onto the bug and moves it to Fixing; on any other bug
\* it fails and changes nothing.
C18_GenerateFixMovesAnalyzingBug ==
    [][AnalyzerCall("generateFix")
       => IF TargetBefore.state = "analyzing" /\ TargetBefore.rootCauseAnalysis # Null
          THEN /\ last'.result = "ok"
               /\ TargetAfter.state = "fixing"
               /\ TargetAfter.fix # Null
          ELSE /\ last'.result # "ok"
               /\ bugs' = bugs]_vars

\* The rules of the service of bug whose pattern matches its error text.
MatchingRules(bug) ==
    IF bug.service \notin DOMAIN autoFixRules THEN {}
    ELSE {autoFixRules[bug.service][k] : k \in
            {j \in 1..Len(autoFixRules[bug.service]) :
                test(autoFixRules[bug.service][j].pattern, textOf(bug.errorMessage))}}
PlannedBug == bugs[last.t][find(bugs[last.t], last.id)]

\* C19: generateFix returns manual-only guidance when no rule matches;
\* otherwise exactly one fix for every matching rule (all of them), of type
\* automated exactly when a template is loaded for the rule and manual
\* otherwise, and an overall risk equal to the highest risk among the fixes.
C19_PlanCoversEveryMatchingRule ==
    (last.op = "generateFix" /\ last.result = "ok")
        => LET plan == ret[1]
               rules == MatchingRules(PlannedBug)
           IN IF rules = {}
              THEN /\ ~plan.canAutoFix
                   /\ "fixes" \notin DOMAIN plan
                   /\ Len(plan.manualSteps) > 0
              ELSE /\ plan.canAutoFix
                   /\ Len(plan.fixes) = Cardinality(rules)
                   /\ \A rule \in rules :
                        \E k \in 1..Len(plan.fixes) :
                           /\ plan.fixes[k].description = rule.fix
                           /\ plan.fixes[k].risk = rule.risk
                           /\ plan.fixes[k].type
                                = IF rule.name \in DOMAIN fixTemplates
                                  THEN "automated" ELSE "manual"
                   /\ \E k \in 1..Len(plan.fixes) :
                        plan.fixes[k].risk = plan.riskAssessment.overallRisk
                   /\ \A k \in 1..Len(plan.fixes) :
                        riskLevels[plan.fixes[k].risk]
                            <= riskLevels[plan.riskAssessment.overallRisk]
\* The plan for the auth bug whose text matches both rules, with a template
\* for jwt-validation only: an automated medium fix and a manual high fix,
\* overall risk high.
C19_Witness ==
    /\ last.op = "generateFix" /\ last.result = "ok"
    /\ Cardinality(MatchingRules(PlannedBug)) = 2
    /\ DOMAIN fixTemplates = {"jwt-validation"}
    /\ ret[1].canAutoFix
    /\ Len(ret[1].fixes) = 2
    /\ ret[1].fixes[1].type = "automated" /\ ret[1].fixes[1].risk = "medium"
    /\ ret[1].fixes[2].type = "manual" /\ ret[1].fixes[2].risk = "high"
    /\ ret[1].riskAssessment.overallRisk = "high"

\* C20: every value generateFix returns carries a rollback plan, the
\* manual-only one included.
C20_EveryPlanHasRollback ==
    (last.op = "generateFix" /\ last.result = "ok")
        => /\ "rollbackPlan" \in DOMAIN ret[1]
           /\ Len(ret[1].rollbackPlan.steps) > 0

C22_ReporterMutatesNothing ==
    [][(nops' # nops /\ last'.op \in {"generateReport", "exportBugs"})
       => /\ UNCHANGED <<bugs, history, metrics, bugDatabase, bugHistory, metricsFile>>
          /\ last'.op = "generateReport"
                => LET m == metrics[last'.t]
                       r == ret'[1]
                   IN /\ r.summary.totalBugs = m.totalBugs
                      /\ r.summary.criticalBugs = m.criticalBugs
                      /\ r.summary.highPriorityBugs = m.highPriorityBugs
                      /\ r.summary.resolvedBugs = m.resolvedBugs
                      /\ r.breakdown.byService = m.serviceBreakdown
                      /\ r.breakdown.byCategory = m.categoryBreakdown
                      /\ r.trends.bugTrend = m.bugTrend]_vars
\* A second operation in a row was a summary report, on day 1, of the store
\* whose one bug was created and resolved on day 0: it shows 1 bug, 1
\* resolved, and the trend still has the one entry of day 0 (counted twice,
\* by createBug and by resolveBug).
C22_Witness ==
    /\ last.op = "generateReport" /\ nops = 2 /\ now = 1
    /\ ret[1].type = "summary"
    /\ ret[1].summary.totalBugs = 1 /\ ret[1].summary.resolvedBugs = 1
    /\ Len(history[1]) = Len(seedResolvedHistory)
    /\ metrics[1].bugTrend = <<[date |-> 0, count |-> 2]>>
    /\ bugDatabase = Doc(bugs[1]) /\ metricsFile = Doc(metrics[1])

\* C23: exportBugs('json') followed by importBugs into an empty store gives
\* back every exported bug exactly (id, state, timestamps, priority, comments
\* and sub-records).
C23_ExportImportRoundTrip ==
    last.op = "roundTrip" => ret[1].imported = bugs[last.t]

\* The operations that take a bug id.
IdOps ==
    {"updateBug", "addComment", "analyzeRootCause", "implementFix", "validateFix",
     "deployFix", "resolveBug", "generateFix", "applyFix", "analyzer.validateFix",
     "generateAnalysisReport"}

\* C24: an operation that takes a bug id (applyFix: when auto-fix is enabled)
\* called with an id that is not in the store fails with NotFound, in the
\* same call, and leaves the bugs, the history log, the metrics, the files,
\* the backup directory and the working tree unchanged.
C24_UnknownIdIsNotFound ==
    [][(/\ nops' # nops
        /\ last'.op \in IdOps
        /\ \A i \in 1..Len(bugs[last'.t]) : bugs[last'.t][i].id # last'.id
        /\ last'.op = "applyFix" => config.autoFixEnabled)
       => /\ last'.result = "NotFound"
          /\ UNCHANGED <<bugs, history, metrics, bugDatabase, bugHistory,
                         metricsFile, backupDir, workTree>>]_vars
\* applyFix, enabled and with backups on, was called with an unknown id on a
\* store that holds a bug in fixing: NotFound, no backup, the bug untouched.
C24_Witness ==
    /\ config.autoFixEnabled /\ config.backupBeforeFix
    /\ last.op = "applyFix" /\ last.id = UnknownId /\ last.result = "NotFound"
    /\ Len(bugs[1]) = 1 /\ bugs[1][1].id = SeedId /\ bugs[1][1].state = "fixing"
    /\ backupDir = NoBackup /\ workTree = {}
    /\ bugDatabase = Doc(bugs[1])

\* C25: a mutating operation has persisted its result in every file it
\* saves, or it reports failure and leaves the three files as they were.
C25_FailedSaveIsReported ==
    [][(nops' # nops /\ last'.op \in DOMAIN savesOf /\ last'.result # "NotFound")
       => LET t == last'.t
              saved == {savesOf[last'.op][k] : k \in 1..Len(savesOf[last'.op])}
          IN \/ /\ "bugs" \in saved => bugDatabase' = Doc(bugs'[t])
                /\ "history" \in saved => bugHistory' = Doc(history'[t])
                /\ "metrics" \in saved => metricsFile' = Doc(metrics'[t])
             \/ /\ last'.result # "ok"
                /\ UNCHANGED <<bugDatabase, bugHistory, metricsFile>>]_vars

\* C26: the history log is append-only: every step, operation or restart,
\* keeps the persisted log and each tracker's in-memory log as a prefix of
\* the log after the step.
C26_HistoryOnlyGrows ==
    [][/\ IsPrefix(loadHistory(bugHistory), loadHistory(bugHistory'))
       /\ \A t \in Trackers : IsPrefix(history[t], history'[t])]_vars

\* C27: validate always terminates: when the test process never finishes,
\* validate still returns, with a validation recorded as failed on the bug.
C27_ValidateTimesOut ==
    [][(AnalyzerCall("analyzer.validateFix")
        /\ events' = <<event("tests_run", "neverCloses")>>)
       => /\ last'.result # "pending"
          /\ TargetAfter.validation = Some([status |-> "failed"])]_vars

\* The severity the order critical, high, medium of the service's pattern
\* tables gives, low when nothing matches or the service has no table.
SeverityByOrder(error, service) ==
    LET hit(level) ==
            /\ service \in DOMAIN ANALYSIS_RULES
            /\ \E k \in 1..Len(ANALYSIS_RULES[service][level]) :
                  exec(ANALYSIS_RULES[service][level][k], toLowerCase(error))
    IN IF hit("criticalPatterns") THEN "critical"
       ELSE IF hit("highPatterns") THEN "high"
       ELSE IF hit("mediumPatterns") THEN "medium"
       ELSE "low"

\* C28: severity classification tries critical, then high, then medium
\* patterns of the service, and resolves low when none matches, a service
\* without a pattern table included.
C28_SeverityByPatternOrder ==
    last.op = "classify"
        => ret[1].severity = SeverityByOrder(ret[1].error, ret[1].service)

\* C29: the auth_service error text "jwt validation failed" is classified
\* with severity critical and category security.
C29_JwtValidationFailedIsCritical ==
    (/\ last.op = "classify"
     /\ ret[1].error = "jwt validation failed"
     /\ ret[1].service = "auth_service")
        => ret[1].severity = "critical" /\ ret[1].category = "security"

\* The failed records of the batch of a detection step, and the bugs the
\* step added to the store.
FailedRecords == SelectSeq(ret'[1].testResults, LAMBDA r : r.status = "failed")
AddedBugs == SubSeq(bugs'[last'.t], Len(bugs[last'.t]) + 1, Len(bugs'[last'.t]))

\* C30: detection adds exactly one bug for every failed record of the batch
\* and none for the others; each added bug is in Detected, carries the
\* record's service and error, and is tagged with the names of exactly the
\* auto-fix rules that match the error.
C30_OneBugPerFailedRecord ==
    [][(nops' # nops /\ last'.op = "detectBugsFromTestResults")
       => /\ Len(AddedBugs) = Len(FailedRecords)
          /\ SubSeq(bugs'[last'.t], 1, Len(bugs[last'.t])) = bugs[last'.t]
          /\ \A k \in 1..Len(AddedBugs) :
                LET bug == AddedBugs[k]
                    record == FailedRecords[k]
                IN /\ bug.state = "detected"
                   /\ bug.service = record.service
                   /\ bug.errorMessage = record.error
                   /\ {bug.tags[j] : j \in 1..Len(bug.tags)}
                        = {rule.name : rule \in MatchingRules(bug)}
                   /\ Len(bug.tags) = Cardinality(MatchingRules(bug))]_vars
\* A batch of a passed and a failed record was detected, and the one bug it
\* added carries both matching rules of the db service.
C30_Witness ==
    /\ last.op = "detectBugsFromTestResults"
    /\ Len(ret[1].testResults) = 2
    /\ ret[1].testResults[1].status = "passed"
    /\ Len(ret[1].detectedBugs) = 1
    /\ ret[1].detectedBugs[1].tags = <<"missing-index", "connection-timeout">>
    /\ ret[1].detectedBugs[1].state = "detected"

\* Priority a before priority b in a descending order; a priority that is
\* not a number has no place in the order.
Above(a, b) == a # NaN /\ b # NaN /\ a > b
Level(a, b) == a # NaN /\ b # NaN /\ a = b
PriorityQueue == getBugsByPriority(bugs[1], DefaultLimit)

\* C31: the priority queue of the store holds no Resolved or Closed bug and
\* is ordered by priority descending, bugs of equal priority by earliest
\* detection time first.
C31_QueueOrderedByPriorityThenAge ==
    /\ \A i \in 1..Len(PriorityQueue) :
          PriorityQueue[i].state \notin {"resolved", "closed"}
    /\ \A i, j \in 1..Len(PriorityQueue) :
          i < j => \/ Above(PriorityQueue[i].priority, PriorityQueue[j].priority)
                   \/ /\ Level(PriorityQueue[i].priority, PriorityQueue[j].priority)
                      /\ PriorityQueue[i].detectedAt <= PriorityQueue[j].detectedAt

\* C32: bug ids are unique and immutable: no step changes the id of a bug
\* of the store, and after every step no two bugs of the store share an id.
C32_IdsUniqueAndImmutable ==
    [][\A t \in Trackers :
          /\ \A i \in Kept(t) : bugs'[t][i].id = bugs[t][i].id
          /\ \A i, j \in 1..Len(bugs'[t]) :
                bugs'[t][i].id = bugs'[t][j].id => i = j]_vars

\* The pieces of text between the occurrences of sep.
RECURSIVE split(_, _)
split(text, sep) ==
    IF ~includes(text, sep) THEN <<text>>
    ELSE <<SubSeq(text, 1, indexOf(text, sep) - 1)>>
         \o split(SubSeq(text, indexOf(text, sep) + Len(sep), Len(text)), sep)

\* C33: the csv export of a store of N bugs is the header line followed by
\* exactly N lines, one for each bug in store order, each made of the nine
\* values of the bug in the fixed column order, every value between quotes.
C33_CsvHasOneQuotedRowPerBug ==
    (last.op = "exportBugs" /\ ret # Null /\ ret[1].format = "csv")
        => LET lines == split(ret[1].data, "\n")
           IN /\ Len(lines) = Len(bugs[last.t]) + 1
              /\ lines[1] = "id,title,service,severity,category,state,detectedAt,resolvedAt,priority"
              /\ \A k \in 1..Len(bugs[last.t]) :
                    LET row == lines[k + 1]
                        values == split(SubSeq(row, 2, Len(row) - 1), "\",\"")
                    IN /\ SubSeq(row, 1, 1) = "\"" /\ SubSeq(row, Len(row), Len(row)) = "\""
                       /\ Len(values) = 9
                       /\ \A h \in 1..9 :
                             values[h] = csvCell(bugs[last.t][k], csvHeaders[h])
\* C34: in what applyFix returns, the result of an automated fix has status
\* success exactly when every one of its changes was applied (its file
\* exists) and partial otherwise, the result of a manual fix has status
\* pending_manual_implementation, and only the changes of automated fixes
\* are written.
PlanApplied == generateFix(bugs[1][1], fixTemplates).fixes
ChangesApplied(fix) ==
    \A k \in 1..Len(changesOf(fix)) : changesOf(fix)[k].file \in ExistingFiles
AutomatedFiles ==
    UNION {{changesOf(PlanApplied[k])[j].file : j \in 1..Len(changesOf(PlanApplied[k]))} :
              k \in 1..Len(PlanApplied)}
C35_CommentsOnlyAppended ==
    [][\A t \in Trackers : \A i \in Kept(t) :
          /\ IsPrefix(bugs[t][i].comments, bugs'[t][i].comments)
          /\ (nops' # nops /\ last'.t = t /\ last'.op = "addComment"
                 /\ last'.result = "ok" /\ bugs[t][i].id = last'.id)
              => Len(bugs'[t][i].comments) = Len(bugs[t][i].comments) + 1]_vars
\* C36: analyzeRootCause on a bug of the store attaches a chain whose five
\* why levels and rootCause are all present and are the ones of the bug's
\* category (security, performance and functional have their own chain, the
\* three other categories the default chain), and an affected-user estimate
\* of 1000 times the severity multiplier (1000, 700, 400, 100 users).
ChainNames == {"why1", "why2", "why3", "why4", "why5", "rootCause"}
OwnChain == {"security", "performance", "functional"}
ExpectedWhy1 ==
    [security |-> "Security vulnerability detected",
     performance |-> "Performance degradation detected",
     functional |-> "Functionality not working as expected"]
ExpectedUsers == [critical |-> 1000, high |-> 700, medium |-> 400, low |-> 100]
Analyzed(t, i) ==
    /\ nops' # nops /\ last'.t = t /\ last'.op = "analyzeRootCause"
    /\ last'.result = "ok" /\ bugs[t][i].id = last'.id
C36_ChainByCategoryUsersBySeverity ==
    [][\A t \in Trackers : \A i \in Kept(t) :
          Analyzed(t, i) =>
             LET bug == bugs[t][i]
                 a == bugs'[t][i].rootCauseAnalysis[1]
             IN /\ \A name \in ChainNames : Len(a[name]) > 0
                /\ IF bug.category \in OwnChain
                   THEN /\ a.why1 = ExpectedWhy1[bug.category]
                        /\ \A name \in ChainNames : a[name] # defaultChain[name]
                   ELSE \A name \in ChainNames : a[name] = defaultChain[name]
                /\ a.impact.userImpact.affectedUsers
                      = "~" \o String(ExpectedUsers[bug.severity]) \o " users"]_vars
C36_Witness ==
    /\ last.op = "analyzeRootCause" /\ last.result = "ok"
    /\ bugs[1][1].category = "performance" /\ bugs[1][1].severity = "high"
    /\ bugs[1][1].rootCauseAnalysis # Null
    /\ bugs[1][1].rootCauseAnalysis[1].why5 = "Performance not considered in design"
    /\ bugs[1][1].rootCauseAnalysis[1].impact.userImpact.affectedUsers = "~700 users"
\* C37: after every completed operation of a tracker the three files hold
\* what the tracker holds in memory: a tracker constructed from them loads
\* the same bugs, the same history log and the same metrics.
C37_FilesEqualMemory ==
    [][(nops' # nops /\ last'.result = "ok")
       => /\ loadBugs(bugDatabase') = bugs'[last'.t]
          /\ loadHistory(bugHistory') = history'[last'.t]
          /\ loadMetrics(metricsFile') = metrics'[last'.t]]_vars
\* The entries of a log that carry a bug id, in the log's order.
entriesOf(log, bugId) == SelectSeq(log, LAMBDA e : e.bugId = bugId)

\* C38: for every bug of a tracker, the history embedded in the bug record
\* is the sub-sequence of the tracker's history log whose entries carry the
\* bug's id, in the same order.
C38_EmbeddedHistoryIsLogOfBug ==
    \A t \in Trackers : \A i \in 1..Len(bugs[t]) :
        bugs[t][i].history = entriesOf(history[t], bugs[t][i].id)
\* C39: importing the same exported data a second time adds no bugs: an
\* importBugs that directly follows an importBugs of the same tracker (the
\* callers of this model import one and the same exported file) leaves the
\* number of bugs of the store unchanged.
C39_RepeatedImportAddsNothing ==
    [][(/\ nops' # nops
        /\ last.op = "importBugs" /\ last.result = "ok"
        /\ last'.op = "importBugs" /\ last'.t = last.t)
       => Len(bugs'[last.t]) = Len(bugs[last.t])]_vars
\* C40: every bug of the store has a severity among the four levels, a
\* category among the six categories and a priority that is a number
\* between 1 and 16.
C40_BugsAreWellFormed ==
    \A t \in Trackers : \A i \in 1..Len(bugs[t]) :
        /\ bugs[t][i].severity \in SEVERITY_LEVELS
        /\ bugs[t][i].category \in BUG_CATEGORIES
        /\ bugs[t][i].priority \in 1..16
====
